---- MODULE Spec2Model ----
(***************************************************************************)
(* The recurring-event engine of the finance dashboard: the store          *)
(* (recurring_transactions, transactions), the materializer                *)
(* (handleSubmit / generateRecurringTransactions /                         *)
(* generateMissingRecurringTransactions), the duplicate sweep              *)
(* (cleanupDuplicateTransactions), the budget planner's saveBudget and the *)
(* projection's occurrence counter (getMonthlyAmount), and the monthly     *)
(* starting balances (monthly_starting_budgets, loadStartingBudget in the  *)
(* dashboard and in the calendar).                                         *)
(*                                                                         *)
(* Dates are calendar days counted from 2024-01-01 (day 0).  The code      *)
(* builds its Date objects from "yyyy-MM-dd" strings and formats them back *)
(* with date-fns; the model takes the client's zone to be UTC, where both  *)
(* conversions are exact, so a date is its day number and string           *)
(* comparison of two dates is comparison of their day numbers.  The        *)
(* generators on their own (SpecGen) are also run in a zone west of UTC,   *)
(* where new Date("yyyy-MM-dd"), which reads the string as UTC midnight,   *)
(* falls on the previous local day and format() writes that day.           *)
(***************************************************************************)
EXTENDS Integers, Sequences, FiniteSets, TLC

VARIABLES
  recurring_transactions,  \* table: rule id -> template row, or NoRule
  transactions,            \* table: set of transaction rows
  nextId,                  \* creation counter: the id (and created order) of the next row
  rec,                     \* reconcile sessions: session -> position and locals
  sub,                     \* the handleSubmit call in flight: position and locals
  swp,                     \* the cleanupDuplicateTransactions calls in flight, by session
  hist,                    \* what the last completed operations did (observation only)
  faults,                  \* store calls that have failed so far
  checks,                  \* calls of checkAndGenerateRecurringTransactions so far
  saves,                   \* calls of saveBudget, deleteRecurring, toggleActive so far
  gen,                     \* inputs and results of the pure date generators
  del,                     \* the deleteRecurring call in flight
  monthly_starting_budgets,  \* table: one row per month, UNIQUE(user_id, month)
  profiles,                \* the owner's profiles row
  ldr,                     \* loadStartingBudget per component: position, locals, state
  led,                     \* what the edits and the last completed load did (observation)
  cfp,                     \* the CashflowPrediction component: position of loadData, state
  lp                       \* one run of a generator's loop, iteration by iteration

budgetVars == <<monthly_starting_budgets, profiles, ldr, led, cfp, lp>>
vars ==
  <<recurring_transactions, transactions, nextId, rec, sub, swp, hist, faults, checks,
    saves, gen, del, budgetVars>>
storeVars ==
  <<recurring_transactions, transactions, nextId, rec, sub, swp, hist, faults, checks,
    saves>>

-----------------------------------------------------------------------------
(* Calendar *)

IsLeap(y) == (y % 4 = 0 /\ y % 100 # 0) \/ y % 400 = 0

DaysInYear(y) == IF IsLeap(y) THEN 366 ELSE 365

DaysInMonth(y, m) ==
  IF m = 2 THEN (IF IsLeap(y) THEN 29 ELSE 28)
  ELSE IF m \in {4, 6, 9, 11} THEN 30 ELSE 31

RECURSIVE DaysBeforeYear(_)
DaysBeforeYear(y) ==
  IF y = 2024 THEN 0
  ELSE IF y > 2024 THEN DaysBeforeYear(y - 1) + DaysInYear(y - 1)
  ELSE DaysBeforeYear(y + 1) - DaysInYear(y)

RECURSIVE DaysBeforeMonth(_, _)
DaysBeforeMonth(y, m) ==
  IF m <= 1 THEN 0 ELSE DaysBeforeMonth(y, m - 1) + DaysInMonth(y, m - 1)

\* new Date(y, m, d) with JavaScript's normalisation: a month past December rolls
\* into the next year and a day past the month's end rolls into the next month.
MakeDate(y, m, d) ==
  LET yy == y + ((m - 1) \div 12)
      mm == ((m - 1) % 12) + 1
  IN  DaysBeforeYear(yy) + DaysBeforeMonth(yy, mm) + (d - 1)

YearOf(n) ==
  CHOOSE y \in 2023..2040 :
    DaysBeforeYear(y) <= n /\ n < DaysBeforeYear(y + 1)

MonthOf(n) ==
  LET y == YearOf(n)
      r == n - DaysBeforeYear(y)
  IN  CHOOSE m \in 1..12 :
        DaysBeforeMonth(y, m) <= r /\ r < DaysBeforeMonth(y, m) + DaysInMonth(y, m)

DayOf(n) ==
  LET y == YearOf(n) IN n - DaysBeforeYear(y) - DaysBeforeMonth(y, MonthOf(n)) + 1

Min(a, b) == IF a <= b THEN a ELSE b

\* Date.prototype.setMonth(getMonth() + 1): the day-of-month is kept and an
\* overflow past the shorter month's end rolls forward (Jan 31 -> Mar 2 or 3).
SetMonthPlus1(n) == MakeDate(YearOf(n), MonthOf(n) + 1, DayOf(n))

\* Date.prototype.setFullYear(getFullYear() + 1): Feb 29 rolls to Mar 1.
SetFullYearPlus1(n) == MakeDate(YearOf(n) + 1, MonthOf(n), DayOf(n))

\* date-fns addMonths(date, k): the day-of-month is clamped to the target month's end.
addMonths(n, k) ==
  LET y  == YearOf(n)
      m  == MonthOf(n) + k
      yy == y + ((m - 1) \div 12)
      mm == ((m - 1) % 12) + 1
  IN  MakeDate(yy, mm, Min(DayOf(n), DaysInMonth(yy, mm)))

addYears(n, k) == addMonths(n, 12 * k)
addWeeks(n, k) == n + 7 * k
addDays(n, k) == n + k

startOfMonth(n) == MakeDate(YearOf(n), MonthOf(n), 1)

NoDate == 0 - 1   \* end_date NULL

Frequencies == {"daily", "weekly", "fortnight", "monthly", "yearly"}

-----------------------------------------------------------------------------
(* The date generators *)

\* The safety limits of the two materializer loops.  The code's limits are 1000
\* (generateMissingRecurringTransactions) and 365 (generateRecurringTransactions)
\* against windows of 24 and 12 months; the model scales limits and windows
\* together so that a run that stops at its limit before the window's end is
\* within reach of an exhaustive search.
maxIterations == 4
maxIterationsSubmit == 2

\* The switch on template.frequency that advances currentDate in both loops.
NextDate(frequency, currentDate) ==
  CASE frequency = "daily"     -> currentDate + 1
    [] frequency = "weekly"    -> currentDate + 7
    [] frequency = "fortnight" -> currentDate + 14
    [] frequency = "monthly"   -> SetMonthPlus1(currentDate)
    [] frequency = "yearly"    -> SetFullYearPlus1(currentDate)
    [] OTHER                   -> currentDate

\* The loop of generateMissingRecurringTransactions: the dates of transactionsToCreate,
\* in the order pushed.
RECURSIVE MissingLoop(_, _, _, _, _, _)
MissingLoop(template, maxDate, existingDates, currentDate, iterations, acc) ==
  IF iterations < maxIterations /\ currentDate <= maxDate
  THEN IF currentDate \notin existingDates
       THEN IF template.end_date # NoDate /\ currentDate > template.end_date
            THEN acc
            ELSE MissingLoop(template, maxDate, existingDates,
                             NextDate(template.frequency, currentDate),
                             iterations + 1, Append(acc, currentDate))
       ELSE MissingLoop(template, maxDate, existingDates,
                        NextDate(template.frequency, currentDate),
                        iterations + 1, acc)
  ELSE acc

\* Start from the template's start_date or next_occurrence, whichever is later.
MissingDates(template, maxDate, existingDates) ==
  MissingLoop(template, maxDate, existingDates,
              IF template.next_occurrence > template.start_date
              THEN template.next_occurrence ELSE template.start_date,
              0, <<>>)

\* The loop of generateRecurringTransactions: it advances first, then tests.
RECURSIVE RecurringLoop(_, _, _, _, _)
RecurringLoop(template, maxDate, currentDate, iterations, acc) ==
  IF iterations < maxIterationsSubmit
  THEN LET next == NextDate(template.frequency, currentDate) IN
       IF template.end_date # NoDate /\ next > template.end_date THEN acc
       ELSE IF next > maxDate THEN acc
       ELSE RecurringLoop(template, maxDate, next, iterations + 1, Append(acc, next))
  ELSE acc

RecurringDates(template, startDate, maxDate) ==
  RecurringLoop(template, maxDate, startDate, 0, <<>>)

\* A step that leaves the date where it is.
StandsStill(frequency, currentDate) == currentDate

\* getMonthlyAmount: the step each frequency advances by (date-fns, clamping).
CounterStep(frequency, currentDate) ==
  CASE frequency = "monthly"   -> addMonths(currentDate, 1)
    [] frequency = "yearly"    -> addYears(currentDate, 1)
    [] frequency = "quarterly" -> addMonths(currentDate, 3)
    [] frequency = "weekly"    -> addWeeks(currentDate, 1)
    [] frequency = "fortnight" -> addWeeks(currentDate, 2)
    [] frequency = "daily"     -> addDays(currentDate, 1)
    [] OTHER                   -> currentDate

\* getMonthlyAmount: "skip ahead if start date is before the month we're checking".
RECURSIVE SkipAhead(_, _, _)
SkipAhead(frequency, currentDate, monthStart) ==
  IF currentDate >= monthStart THEN currentDate
  ELSE IF frequency = "daily" THEN monthStart
  ELSE IF frequency \in {"monthly", "yearly", "quarterly", "weekly", "fortnight"}
       THEN SkipAhead(frequency, CounterStep(frequency, currentDate), monthStart)
       ELSE currentDate

\* getMonthlyAmount: the counting loop; the set of the dates it counts.
RECURSIVE CountLoop(_, _, _, _, _)
CountLoop(transaction, currentDate, monthStart, monthEnd, acc) ==
  IF transaction.frequency \notin
       {"monthly", "yearly", "quarterly", "weekly", "fortnight", "daily"}
  THEN acc
  ELSE IF currentDate <= monthEnd
  THEN LET counted ==
             IF /\ monthStart <= currentDate /\ currentDate <= monthEnd
                /\ (transaction.end_date = NoDate \/ currentDate <= transaction.end_date)
             THEN acc \cup {currentDate} ELSE acc
       IN  CountLoop(transaction, CounterStep(transaction.frequency, currentDate),
                     monthStart, monthEnd, counted)
  ELSE acc

\* The dates getMonthlyAmount counts for the month [monthStart, monthEnd].
CountedDates(transaction, monthStart, monthEnd) ==
  IF transaction.start_date > monthEnd THEN {}
  ELSE IF transaction.end_date # NoDate /\ transaction.end_date < monthStart THEN {}
  ELSE CountLoop(transaction,
                 SkipAhead(transaction.frequency, transaction.start_date, monthStart),
                 monthStart, monthEnd, {})

getMonthlyAmount(transaction, monthStart, monthEnd) ==
  transaction.amount * Cardinality(CountedDates(transaction, monthStart, monthEnd))

-----------------------------------------------------------------------------
(* The generators on their own: a rule and a window are drawn, then the        *)
(* materializer and the projection's counter are applied to them.              *)

GenAnchors == { MakeDate(2024, 1, d) : d \in 1..31 } \cup { MakeDate(2024, 2, 29) }
GenWindowEnds ==
  { MakeDate(2024, 1, 15), MakeDate(2024, 3, 15), MakeDate(2024, 5, 1), MakeDate(2028, 3, 31) }
GenEndDates == { NoDate, MakeDate(2024, 1, 10), MakeDate(2024, 3, 30) }
GenMonths == 4   \* the months counted: the anchor's month and the next GenMonths - 1
GenYears == 5    \* the years counted: twelve months from the anchor's month, GenYears times

\* The days the local calendar is behind the UTC calendar at UTC midnight: 0 in a zone
\* at or east of UTC, 1 in a zone west of it.
Zones == {0, 1}

\* new Date(string) of a "yyyy-MM-dd" string is UTC midnight of that day; the loops
\* advance it with the local setters and write it with format(), which is local.  In
\* local days: every date read from a string is `zone` days earlier, the comparisons
\* with maxDate and endDate, made on instants, move with it, and the strings pushed
\* are the local days.
LocalDay(zone, date) == IF date = NoDate THEN NoDate ELSE date - zone

LocalTemplate(zone, template) ==
  [template EXCEPT !.start_date = LocalDay(zone, template.start_date),
                   !.next_occurrence = LocalDay(zone, template.next_occurrence),
                   !.end_date = LocalDay(zone, template.end_date)]

\* generateMissingRecurringTransactions' dates in a zone.
MissingDatesIn(zone, template, maxDate, existingDates) ==
  MissingDates(LocalTemplate(zone, template), LocalDay(zone, maxDate), existingDates)

\* generateRecurringTransactions' dates in a zone.
RecurringDatesIn(zone, template, startDate, maxDate) ==
  RecurringDates(LocalTemplate(zone, template), LocalDay(zone, startDate),
                 LocalDay(zone, maxDate))

GenRule(g) ==
  [frequency |-> g.frequency, start_date |-> g.start_date, end_date |-> g.end_date,
   next_occurrence |-> g.start_date, amount |-> 1, is_active |-> g.is_active]

\* .eq("is_active", true): the templates a reconcile walks and the projection counts.
\* AnyTemplate is the select without the filter.
AnyTemplate(rows) == rows
ActiveTemplates(rows) == { t \in rows : t.is_active }

\* Month k (0-based) after the month of date n: its first and last day.
MonthStartAt(n, k) == MakeDate(YearOf(n), MonthOf(n) + k, 1)
MonthEndAt(n, k) == MakeDate(YearOf(n), MonthOf(n) + k + 1, 0)

\* The window that ends four years on is drawn for the rules that step by months or
\* years.
GenInit ==
  gen \in { g \in [frequency : Frequencies, start_date : GenAnchors,
                   end_date : GenEndDates, to : GenWindowEnds, zone : Zones,
                   is_active : BOOLEAN, phase : {"input"}, dates : {<<>>},
                   submitted : {<<>>}, counted : {<<>>}, countedAt : {{}},
                   countedYears : {<<>>}] :
               g.to = MakeDate(2028, 3, 31) => g.frequency \in {"monthly", "yearly"} }

\* The materializers on an empty store: the dates one reconcile creates up to g.to
\* for the templates its select returns, and the dates generateRecurringTransactions
\* creates after the first up to g.to (it runs on the template handleSubmit has just
\* inserted with is_active: true).
GenMaterialize ==
  /\ gen.phase = "input"
  /\ gen' = [gen EXCEPT !.phase = "materialized",
                        !.dates =
                           IF ActiveTemplates({GenRule(gen)}) = {} THEN <<>>
                           ELSE MissingDatesIn(gen.zone, GenRule(gen), gen.to, {}),
                        !.submitted =
                           IF ~gen.is_active THEN <<>>
                           ELSE RecurringDatesIn(gen.zone, GenRule(gen),
                                                 gen.start_date, gen.to)]
  /\ UNCHANGED <<storeVars, del, budgetVars>>

\* The occurrences the projection counts in [monthStart, monthEnd] over the templates
\* its loadData has selected.
ProjectedDates(rows, monthStart, monthEnd) ==
  UNION { CountedDates(t, monthStart, monthEnd) : t \in ActiveTemplates(rows) }

\* The projection's counter, month by month from the anchor's month, in the month of
\* g.to, and for a yearly rule year by year (the twelve months from the anchor's
\* month on).
GenCount ==
  /\ gen.phase = "materialized"
  /\ gen' = [gen EXCEPT !.phase = "counted",
                        !.counted = [k \in 1..GenMonths |->
                           ProjectedDates({GenRule(gen)},
                                          MonthStartAt(gen.start_date, k - 1),
                                          MonthEndAt(gen.start_date, k - 1))],
                        !.countedAt =
                           ProjectedDates({GenRule(gen)}, MonthStartAt(gen.to, 0),
                                          MonthEndAt(gen.to, 0)),
                        !.countedYears =
                           IF gen.frequency # "yearly" THEN <<>>
                           ELSE [k \in 1..GenYears |->
                                  UNION { ProjectedDates({GenRule(gen)},
                                            MonthStartAt(gen.start_date, 12 * (k - 1) + j),
                                            MonthEndAt(gen.start_date, 12 * (k - 1) + j)) :
                                          j \in 0..11 }]]
  /\ UNCHANGED <<storeVars, del, budgetVars>>

-----------------------------------------------------------------------------
(* The store and the operations on it *)

\* new Date() in every client: the model's clock stands still.
Today == MakeDate(2024, 1, 31)

\* The windows: checkAndGenerateRecurringTransactions passes addMonths(now, 24),
\* generateRecurringTransactions stops at now + 12 months.  Scaled, in days.
ReconcileAhead == 28
SubmitAhead == 14

MaxRules == 2      \* templates (sequential runs)
MaxRulesConcurrent == 1   \* templates (concurrent runs)
MaxChecks == 2     \* calls of checkAndGenerateRecurringTransactions in one behaviour
MaxSaves == 2      \* calls of saveBudget, deleteRecurring and toggleActive in one behaviour
MaxManual == 1     \* rows entered by hand (forms that are not recurring)
MaxFaults == 1     \* store calls that fail in one behaviour
MaxRows == 12      \* transaction rows ever created
MaxSweepRows == 4  \* rows of a store handed to the sweep alone

\* The clients running checkAndGenerateRecurringTransactions.
Sessions == {1, 2}

FormTypes == {"expense"}
FormCategories == {"Mortgage & rent"}
FormAmounts == {1200}
FormDates == {Today - 7, Today}
FormFrequencies == {"daily", "weekly"}
FormEndDates == {NoDate}

\* The values of formData a user can submit; a form that is not recurring keeps the
\* defaults of the date (today) and of the recurrence fields.
Forms ==
  { f \in [type : FormTypes, category : FormCategories, amount : FormAmounts,
           date : FormDates, isRecurring : BOOLEAN,
           frequency : FormFrequencies \cup {"monthly"}, endDate : FormEndDates] :
      IF f.isRecurring THEN f.frequency \in FormFrequencies
      ELSE f.date = Today /\ f.frequency = "monthly" /\ f.endDate = NoDate }

NoTemplate ==
  [id |-> 0, type |-> "expense", category |-> "", amount |-> 0, description |-> "",
   frequency |-> "monthly", start_date |-> 0, end_date |-> NoDate,
   next_occurrence |-> 0, is_active |-> FALSE]

NoForm ==
  [type |-> "expense", category |-> "", amount |-> 0, date |-> 0,
   isRecurring |-> FALSE, frequency |-> "monthly", endDate |-> NoDate]

\* A row of transactions made from a template (the object both loops push).
RowOf(template, date, id) ==
  [id |-> id, type |-> template.type, category |-> template.category,
   amount |-> template.amount, description |-> template.description, date |-> date,
   recurring_template_id |-> template.id]

\* supabase.from("transactions").insert(rows): ids follow the order of creation.
InsertRows(template, dates, firstId) ==
  { RowOf(template, dates[i], firstId + i - 1) : i \in 1..Len(dates) }

TemplateIds == { t.id : t \in recurring_transactions }
TemplateById(id) == CHOOSE t \in recurring_transactions : t.id = id

\* .update({ next_occurrence: lastDate }).eq("id", id): no row, no effect.
UpdateNextOccurrence(id, lastDate) ==
  { IF t.id = id THEN [t EXCEPT !.next_occurrence = lastDate] ELSE t :
      t \in recurring_transactions }

\* The fingerprint the code keys on: `${category}|${date}|${amount}|${type}`.  The
\* last three fields hold no "|", so two keys are equal exactly when the four
\* fields are.
Key(t) == <<t.category, t.date, t.amount, t.type>>

IdleRec ==
  [pc |-> "idle", queue |-> <<>>, template |-> NoTemplate, existingDates |-> {},
   seen |-> {}, transactionsToCreate |-> <<>>]
IdleSub ==
  [pc |-> "idle", formData |-> NoForm, recurringTemplateId |-> 0,
   template |-> NoTemplate, transactionsToCreate |-> <<>>]
IdleSwp == [pc |-> "idle", duplicateIds |-> {}, before |-> {}]
IdleDel == [pc |-> "idle", id |-> 0, before |-> {}]

\* `ok`: the operation's store calls succeeded; `error`: the operation told its caller
\* or the user that it failed (an alert, an exception); `dispatched`: it dispatched its
\* window event.
NoOp == [op |-> "none", rule |-> 0, ok |-> FALSE, error |-> FALSE, created |-> 0,
         deleted |-> {}, before |-> {}, dispatched |-> FALSE]
IdleHist == [on |-> FALSE, last |-> NoOp, prev |-> NoOp, edit |-> NoOp, reconciled |-> {}]
IdleGen ==
  [frequency |-> "monthly", start_date |-> 0, end_date |-> NoDate, to |-> 0, zone |-> 0,
   is_active |-> FALSE, phase |-> "off", dates |-> <<>>, submitted |-> <<>>,
   counted |-> <<>>, countedAt |-> {}, countedYears |-> <<>>]

\* A completed operation enters the history.
Record(o) ==
  IF hist.on
  THEN [on |-> TRUE, last |-> o, prev |-> hist.last,
        edit |-> IF o.op = "edit" THEN o ELSE hist.edit,
        reconciled |-> IF o.op = "reconcile" /\ o.ok
                       THEN hist.reconciled \cup {o.rule} ELSE hist.reconciled]
  ELSE hist

\* The outcome of a store call: it succeeds, or (within the budget) it fails.
Outcomes == IF faults < MaxFaults THEN {TRUE, FALSE} ELSE {TRUE}
Fault(ok) == faults' = IF ok THEN faults ELSE faults + 1

-----------------------------------------------------------------------------
(* handleSubmit and generateRecurringTransactions *)

\* The CHECK constraints of recurring_transactions: type and frequency.  There is none
\* on amount and none that relates start_date and end_date.
TemplateCheck(row) ==
  /\ row.type \in {"income", "expense"}
  /\ row.frequency \in Frequencies

\* handleSubmit up to its first write: a recurring form inserts the template (when
\* that insert fails handleSubmit returns and the store is as it was).
HandleSubmit(formData, maxRules) ==
  /\ sub.pc = "idle"
  /\ nextId + 1 + maxIterationsSubmit <= MaxRows
  /\ IF formData.isRecurring /\ ~TemplateCheck(formData)
     THEN UNCHANGED <<recurring_transactions, nextId, sub>>
     ELSE IF formData.isRecurring
     THEN /\ Cardinality(recurring_transactions) < maxRules
          /\ recurring_transactions' = recurring_transactions \cup
               {[id |-> nextId, type |-> formData.type, category |-> formData.category,
                 amount |-> formData.amount, description |-> "",
                 frequency |-> formData.frequency, start_date |-> formData.date,
                 end_date |-> formData.endDate, next_occurrence |-> formData.date,
                 is_active |-> TRUE]}
          /\ nextId' = nextId + 1
          /\ sub' = [IdleSub EXCEPT !.pc = "initial", !.formData = formData,
                                    !.recurringTemplateId = nextId]
     ELSE /\ Cardinality({t \in transactions : t.recurring_template_id = 0}) < MaxManual
          /\ sub' = [IdleSub EXCEPT !.pc = "initial", !.formData = formData]
          /\ UNCHANGED <<recurring_transactions, nextId>>
  /\ UNCHANGED <<transactions, rec, swp, hist, faults, checks, saves, gen, del, budgetVars>>

\* "Create the initial transaction"; on an error nothing more is done.
SubmitInitial ==
  /\ sub.pc = "initial"
  /\ \E ok \in Outcomes :
       /\ ok => (sub.recurringTemplateId = 0 \/ sub.recurringTemplateId \in TemplateIds)
       /\ Fault(ok)
       /\ IF ok
          THEN /\ transactions' = transactions \cup
                    {[id |-> nextId, type |-> sub.formData.type,
                      category |-> sub.formData.category, amount |-> sub.formData.amount,
                      description |-> "", date |-> sub.formData.date,
                      recurring_template_id |-> sub.recurringTemplateId]}
               /\ nextId' = nextId + 1
               /\ IF sub.formData.isRecurring
                  THEN /\ sub' = [sub EXCEPT !.pc = "generate"]
                       /\ hist' = hist
                  ELSE /\ sub' = IdleSub
                       /\ hist' = Record([NoOp EXCEPT !.op = "submit", !.ok = TRUE,
                                                      !.created = 1])
          ELSE /\ sub' = IdleSub
               /\ hist' = Record([NoOp EXCEPT !.op = "submit",
                                              !.rule = sub.recurringTemplateId])
               /\ UNCHANGED <<transactions, nextId>>
  /\ UNCHANGED <<recurring_transactions, rec, swp, checks, saves, gen, del, budgetVars>>

\* generateRecurringTransactions: read the template, run the loop.
SubmitGenerate ==
  /\ sub.pc = "generate"
  /\ IF sub.recurringTemplateId \notin TemplateIds
     THEN /\ sub' = IdleSub
          /\ hist' = Record([NoOp EXCEPT !.op = "submit", !.rule = sub.recurringTemplateId])
     ELSE LET template == TemplateById(sub.recurringTemplateId)
              dates == RecurringDates(template, sub.formData.date, Today + SubmitAhead)
          IN  IF dates = <<>>
              THEN /\ sub' = IdleSub
                   /\ hist' = Record([NoOp EXCEPT !.op = "submit", !.ok = TRUE,
                                                  !.rule = sub.recurringTemplateId])
              ELSE /\ sub' = [sub EXCEPT !.pc = "genInsert", !.template = template,
                                         !.transactionsToCreate = dates]
                   /\ hist' = hist
  /\ UNCHANGED <<recurring_transactions, transactions, nextId, rec, swp, faults, checks,
                 saves, gen, del, budgetVars>>

\* "Batch insert transactions": one statement, all rows or none.
SubmitGenInsert ==
  /\ sub.pc = "genInsert"
  /\ \E ok \in Outcomes :
       /\ ok => sub.template.id \in TemplateIds
       /\ Fault(ok)
       /\ IF ok
          THEN /\ transactions' = transactions \cup
                    InsertRows(sub.template, sub.transactionsToCreate, nextId)
               /\ nextId' = nextId + Len(sub.transactionsToCreate)
               /\ sub' = [sub EXCEPT !.pc = "genUpdate"]
               /\ hist' = hist
          ELSE /\ sub' = IdleSub
               /\ hist' = Record([NoOp EXCEPT !.op = "submit", !.rule = sub.template.id])
               /\ UNCHANGED <<transactions, nextId>>
  /\ UNCHANGED <<recurring_transactions, rec, swp, checks, saves, gen, del, budgetVars>>

\* "Update next_occurrence in the template"; the update's error is not looked at.
SubmitGenUpdate ==
  /\ sub.pc = "genUpdate"
  /\ \E ok \in Outcomes :
       /\ Fault(ok)
       /\ recurring_transactions' =
            IF ok THEN UpdateNextOccurrence(sub.template.id,
                         sub.transactionsToCreate[Len(sub.transactionsToCreate)])
            ELSE recurring_transactions
       /\ hist' = Record([NoOp EXCEPT !.op = "submit", !.ok = ok, !.rule = sub.template.id])
  /\ sub' = IdleSub
  /\ UNCHANGED <<transactions, nextId, rec, swp, checks, saves, gen, del, budgetVars>>

-----------------------------------------------------------------------------
(* checkAndGenerateRecurringTransactions and generateMissingRecurringTransactions *)

\* The rows of a select, here in the order of their ids.
RECURSIVE InIdOrder(_)
InIdOrder(rows) ==
  IF rows = {} THEN <<>>
  ELSE LET first == CHOOSE t \in rows : \A u \in rows : t.id <= u.id
       IN  <<first>> \o InIdOrder(rows \ {first})

\* The loop of checkAndGenerateRecurringTransactions moves to the next template,
\* or ends (loadTransactions changes nothing in the store).
NextTemplate(r) ==
  IF r.queue = <<>> THEN IdleRec
  ELSE [IdleRec EXCEPT !.pc = "existing", !.template = Head(r.queue),
                       !.queue = Tail(r.queue)]

\* "Get all active recurring transactions": the templates as they are now.
CheckAndGenerate(s) ==
  /\ rec[s].pc = "idle"
  /\ checks < MaxChecks
  /\ checks' = checks + 1
  /\ LET recurringTemplates == InIdOrder(ActiveTemplates(recurring_transactions))
     IN  /\ recurringTemplates # <<>>
         /\ rec' = [rec EXCEPT ![s] = NextTemplate([IdleRec EXCEPT
                                                     !.queue = recurringTemplates])]
  /\ UNCHANGED <<recurring_transactions, transactions, nextId, sub, swp, hist, faults,
                 saves, gen, del, budgetVars>>

\* "Get existing transactions for this template".
ReadExisting(s) ==
  /\ rec[s].pc = "existing"
  /\ rec' = [rec EXCEPT ![s].pc = "duplicateCheck",
                         ![s].existingDates =
                            { t.date : t \in { u \in transactions :
                                 u.recurring_template_id = rec[s].template.id } }]
  /\ UNCHANGED <<recurring_transactions, transactions, nextId, sub, swp, hist, faults,
                 checks, saves, gen, del, budgetVars>>

\* A duplicate check that selects nothing: only the template's own rows count.
OwnRowsOnly(template) == {}

\* The rows the duplicate check selects: same category, type and amount.
DuplicateCheckRows(template) ==
  { t \in transactions : /\ t.category = template.category
                         /\ t.type = template.type
                         /\ t.amount = template.amount }

\* "Also check for transactions with the same category, date, amount, and type",
\* then the loop; with nothing to create the run is over.
DuplicateCheck(s) ==
  /\ rec[s].pc = "duplicateCheck"
  /\ LET template == rec[s].template
         existingDates == rec[s].existingDates \cup
                            { t.date : t \in DuplicateCheckRows(template) }
         dates == MissingDates(template, Today + ReconcileAhead, existingDates)
     IN  IF dates = <<>>
         THEN /\ rec' = [rec EXCEPT ![s] = NextTemplate(rec[s])]
              /\ hist' = Record([NoOp EXCEPT !.op = "reconcile", !.rule = template.id,
                                             !.ok = TRUE])
         ELSE /\ rec' = [rec EXCEPT ![s].pc = "insert",
                                    ![s].existingDates = existingDates,
                                    ![s].seen = transactions,
                                    ![s].transactionsToCreate = dates]
              /\ hist' = hist
  /\ UNCHANGED <<recurring_transactions, transactions, nextId, sub, swp, faults, checks,
                 saves, gen, del, budgetVars>>

\* A cursor update that does not look at the insert's error.
IgnoresInsertError(insertOk, length) == length > 0

\* if (!insertError && transactionsToCreate.length > 0): the cursor follows the insert.
UpdatesCursor(insertOk, length) == insertOk /\ length > 0

\* "Batch insert missing transactions": on an error the cursor is left alone.  Rows
\* that refer to a template that is gone are rejected by fk_recurring_template.
InsertMissing(s) ==
  /\ rec[s].pc = "insert"
  /\ \E insertOk \in IF rec[s].template.id \in TemplateIds THEN Outcomes ELSE {FALSE} :
       /\ insertOk => nextId + Len(rec[s].transactionsToCreate) <= MaxRows + 1
       /\ Fault(insertOk)
       /\ IF insertOk
          THEN /\ transactions' = transactions \cup
                    InsertRows(rec[s].template, rec[s].transactionsToCreate, nextId)
               /\ nextId' = nextId + Len(rec[s].transactionsToCreate)
          ELSE UNCHANGED <<transactions, nextId>>
       /\ rec' = IF UpdatesCursor(insertOk, Len(rec[s].transactionsToCreate))
                 THEN [rec EXCEPT ![s].pc = "update"]
                 ELSE [rec EXCEPT ![s] = NextTemplate(rec[s])]
       /\ hist' = Record([NoOp EXCEPT !.op = "reconcile", !.rule = rec[s].template.id,
                           !.ok = insertOk,
                           !.created = IF insertOk THEN Len(rec[s].transactionsToCreate)
                                       ELSE 0])
  /\ UNCHANGED <<recurring_transactions, sub, swp, checks, saves, gen, del, budgetVars>>

\* "Update next_occurrence in the template" with the last date created.
UpdateCursor(s) ==
  /\ rec[s].pc = "update"
  /\ \E ok \in Outcomes :
       /\ Fault(ok)
       /\ recurring_transactions' =
            IF ok THEN UpdateNextOccurrence(rec[s].template.id,
                         rec[s].transactionsToCreate[Len(rec[s].transactionsToCreate)])
            ELSE recurring_transactions
  /\ rec' = [rec EXCEPT ![s] = NextTemplate(rec[s])]
  /\ UNCHANGED <<transactions, nextId, sub, swp, hist, checks, saves, gen, del, budgetVars>>

-----------------------------------------------------------------------------
(* cleanupDuplicateTransactions *)

\* "Group transactions by category, date, amount, and type".
Groups(rows) == { { t \in rows : Key(t) = k } : k \in { Key(t) : t \in rows } }

\* The select orders by date only, and the rows of one group share their date: which
\* row of a group comes first is the store's choice.  Every way of choosing the first
\* row of each group.
RECURSIVE FirstRows(_)
FirstRows(groups) ==
  IF groups = {} THEN {{}}
  ELSE LET g == CHOOSE x \in groups : TRUE
       IN  { c \cup {t} : c \in FirstRows(groups \ {g}), t \in g }

\* ids.slice(0): every row of a group that has duplicates is marked.
WholeGroups(rows, firsts) ==
  { t.id : t \in { u \in rows : \E v \in rows : v.id # u.id /\ Key(v) = Key(u) } }

\* ids[1]: of a group that has duplicates one row only is marked.
SecondOnly(rows, firsts) ==
  { (CHOOSE t \in g \ firsts : TRUE).id : g \in { h \in Groups(rows) : h \ firsts # {} } }

\* Every row but one of the whole select is marked.
AllButOne(rows, firsts) == { t.id : t \in rows \ {CHOOSE f \in firsts : TRUE} }

\* "Keep the first one, mark the rest as duplicates": ids.slice(1) of every group.
DuplicateIds(rows, firsts) == { t.id : t \in rows \ firsts }

\* The select and the grouping; with no duplicate nothing is deleted.
SweepRead(s) ==
  /\ swp[s].pc = "idle"
  /\ transactions # {}
  /\ \E firsts \in FirstRows(Groups(transactions)) :
       LET duplicateIds == DuplicateIds(transactions, firsts)
       IN  IF duplicateIds = {}
           THEN /\ swp' = [swp EXCEPT ![s] = IdleSwp]
                /\ hist' = Record([NoOp EXCEPT !.op = "sweep", !.ok = TRUE,
                                               !.before = transactions])
           ELSE /\ swp' = [swp EXCEPT ![s] = [pc |-> "delete",
                                              duplicateIds |-> duplicateIds,
                                              before |-> transactions]]
                /\ hist' = hist
  /\ UNCHANGED <<recurring_transactions, transactions, nextId, rec, sub, faults, checks,
                 saves, gen, del, budgetVars>>

\* .delete().in("id", duplicateIds); its error is not looked at.
SweepDelete(s) ==
  /\ swp[s].pc = "delete"
  /\ \E ok \in Outcomes :
       /\ Fault(ok)
       /\ transactions' =
            IF ok THEN { t \in transactions : t.id \notin swp[s].duplicateIds }
            ELSE transactions
       /\ hist' = Record([NoOp EXCEPT !.op = "sweep", !.ok = ok,
                           !.deleted = IF ok THEN { t.id : t \in transactions } \cap
                                                 swp[s].duplicateIds
                                       ELSE {},
                           !.before = swp[s].before])
  /\ swp' = [swp EXCEPT ![s] = IdleSwp]
  /\ UNCHANGED <<recurring_transactions, nextId, rec, sub, checks, saves, gen, del, budgetVars>>

-----------------------------------------------------------------------------
(* saveBudget (the budget planner) *)

\* The items of BUDGET_CATEGORIES the model edits, and the values a user gives them.
BudgetItemCategories == {"Mortgage & rent"}
BudgetAmounts == {0, 1200}
BudgetFrequencies == {"weekly", "quarterly"}
BudgetDueDates == {NoDate, Today}

BudgetItems ==
  [category : BudgetItemCategories, amount : BudgetAmounts,
   frequency : BudgetFrequencies, dueDate : BudgetDueDates]

\* description: `Budget: ${item.category}`, and .like("description", "Budget:%").
BudgetDescription(category) == "Budget: Mortgage & rent"
LikeBudget(description) == description = "Budget: Mortgage & rent"

\* category.name === "Income" ? "income" : "expense"; the item is of "Home & utilities".
BudgetType(category) == "expense"

\* frequencyMap, and "Adjust amount for quarterly".
BudgetFrequency(frequency) ==
  CASE frequency = "weekly"    -> "weekly"
    [] frequency = "fortnight" -> "fortnight"
    [] frequency = "monthly"   -> "monthly"
    [] frequency = "quarterly" -> "monthly"
    [] frequency = "annually"  -> "yearly"
BudgetAmount(item) ==
  IF item.frequency = "quarterly" THEN item.amount \div 3 ELSE item.amount

\* "If there are duplicates, keep the most recent one": of the budget templates of
\* one category the newest stays in existingByCategory, the others are duplicates.
ExistingByCategory(allExisting, category) ==
  { t \in allExisting :
      /\ t.category = category
      /\ \A u \in allExisting : u.category = category => u.id <= t.id }
DuplicateTemplateIds(allExisting) ==
  { t.id : t \in { u \in allExisting : u \notin ExistingByCategory(allExisting, u.category) } }

\* DELETE of templates: fk_recurring_template is ON DELETE SET NULL.
SetNull(rows, templateIds) ==
  { IF t.recurring_template_id \in templateIds
    THEN [t EXCEPT !.recurring_template_id = 0] ELSE t : t \in rows }

\* The cursor saveBudget writes into a template it updates:
\* "Reset next_occurrence to start_date so transactions will be regenerated".
SavedCursor(existing, transactionDate) == transactionDate

\* An edit that leaves the events where they are.
KeepsEvents(rows, existing) == rows

\* "Delete all existing transactions generated from this template", "Also delete
\* transactions with the same category, type, and old amount".
WithoutOldEvents(rows, existing) ==
  { t \in rows :
      /\ t.recurring_template_id # existing.id
      /\ ~ ( /\ t.category = existing.category
             /\ t.type = existing.type
             /\ t.amount = existing.amount
             /\ t.description = BudgetDescription(existing.category) ) }

\* saveBudget for one edited item, every store call succeeding.
SaveBudget(item) ==
  LET allExisting == { t \in recurring_transactions : LikeBudget(t.description) }
      duplicateTemplateIds == DuplicateTemplateIds(allExisting)
      existingSet == ExistingByCategory(allExisting, item.category)
      monthStart == startOfMonth(Today)
      transactionDate == IF item.dueDate # NoDate THEN item.dueDate ELSE monthStart
      type == BudgetType(item.category)
      amount == BudgetAmount(item)
      templates1 == { t \in recurring_transactions : t.id \notin duplicateTemplateIds }
      rows1 == SetNull(transactions, duplicateTemplateIds)
  IN
  /\ saves < MaxSaves
  /\ nextId < MaxRows
  /\ IF item.amount > 0
     THEN IF existingSet # {}
          THEN LET existing == CHOOSE t \in existingSet : TRUE IN
               \* "Update existing transactions": the old rows go, the template is reset.
               /\ transactions' = WithoutOldEvents(rows1, existing)
               /\ recurring_transactions' =
                    { IF t.id = existing.id
                      THEN [t EXCEPT !.type = type, !.category = item.category,
                                     !.amount = amount,
                                     !.description = BudgetDescription(item.category),
                                     !.frequency = BudgetFrequency(item.frequency),
                                     !.start_date = transactionDate,
                                     !.next_occurrence = SavedCursor(t, transactionDate),
                                     !.is_active = TRUE]
                      ELSE t : t \in templates1 }
               /\ nextId' = nextId
               /\ hist' = Record([NoOp EXCEPT !.op = "edit", !.ok = TRUE,
                                              !.rule = existing.id,
                                              !.before =
                                                 { t \in transactions :
                                                     t.recurring_template_id = existing.id }])
          ELSE \* "Create new transactions", then "Delete orphaned transactions".
               /\ Cardinality(recurring_transactions) < MaxRules
               /\ recurring_transactions' = templates1 \cup
                    {[id |-> nextId, type |-> type, category |-> item.category,
                      amount |-> amount,
                      description |-> BudgetDescription(item.category),
                      frequency |-> BudgetFrequency(item.frequency),
                      start_date |-> transactionDate, end_date |-> NoDate,
                      next_occurrence |-> transactionDate, is_active |-> TRUE]}
               /\ transactions' =
                    { t \in rows1 :
                        ~ ( /\ t.category = item.category /\ t.type = type
                            /\ t.amount = amount /\ t.recurring_template_id = 0 ) }
               /\ nextId' = nextId + 1
               /\ hist' = Record([NoOp EXCEPT !.op = "save", !.ok = TRUE, !.rule = nextId])
     ELSE \* "categories that were removed or set to 0": the template is deleted.
          /\ existingSet # {}
          /\ recurring_transactions' =
               { t \in templates1 : ~ (LikeBudget(t.description) /\ t.category = item.category) }
          /\ transactions' =
               SetNull(rows1, { t.id : t \in { u \in allExisting : u.category = item.category } })
          /\ nextId' = nextId
          /\ hist' = Record([NoOp EXCEPT !.op = "remove", !.ok = TRUE,
                                         !.before =
                                            { t \in transactions :
                                                \E u \in allExisting :
                                                  /\ u.category = item.category
                                                  /\ t.recurring_template_id = u.id }])
  /\ saves' = saves + 1
  /\ UNCHANGED <<rec, sub, swp, faults, checks, gen, del, budgetVars>>

-----------------------------------------------------------------------------
(* deleteRecurring *)

\* A handler that dispatches its event whatever the delete returned.
DispatchesAlways(ok) == TRUE

\* if (error) { alert } else { loadRecurringTransactions();
\* dispatchEvent("recurringTransactionDeleted") }.
Dispatches(ok) == ok

\* The delete button: "First, delete all transactions associated with this recurring
\* template"; on an error the handler alerts and returns.
DeleteRecurring(id) ==
  /\ del.pc = "idle"
  /\ id \in TemplateIds
  /\ saves < MaxSaves
  /\ saves' = saves + 1
  /\ \E deleteTransactionsOk \in Outcomes :
       /\ Fault(deleteTransactionsOk)
       /\ IF deleteTransactionsOk
          THEN /\ transactions' = { t \in transactions : t.recurring_template_id # id }
               /\ del' = [pc |-> "template", id |-> id,
                          before |-> { t \in transactions :
                                         t.recurring_template_id = id }]
               /\ hist' = hist
          ELSE /\ transactions' = transactions
               /\ del' = IdleDel
               /\ hist' = Record([NoOp EXCEPT !.op = "delete", !.rule = id,
                                              !.error = TRUE,
                                              !.before = { t \in transactions :
                                                            t.recurring_template_id = id }])
  /\ UNCHANGED <<recurring_transactions, nextId, rec, sub, swp, checks, gen, budgetVars>>

\* "Then delete the recurring transaction template": rows that still refer to it are
\* set to null by the foreign key; the event is dispatched when the delete succeeded.
DeleteTemplate ==
  /\ del.pc = "template"
  /\ \E ok \in Outcomes :
       /\ Fault(ok)
       /\ recurring_transactions' =
            IF ok THEN { t \in recurring_transactions : t.id # del.id }
            ELSE recurring_transactions
       /\ transactions' = IF ok THEN SetNull(transactions, {del.id}) ELSE transactions
       /\ hist' = Record([NoOp EXCEPT !.op = "delete", !.rule = del.id, !.ok = ok,
                                      !.error = ~ok, !.before = del.before,
                                      !.dispatched = Dispatches(ok)])
  /\ del' = IdleDel
  /\ UNCHANGED <<nextId, rec, sub, swp, checks, saves, gen, budgetVars>>

-----------------------------------------------------------------------------
(* handleDelete of the day's dialog *)

\* The user deletes one event: delete().eq("id", transactionId); a failure is shown in
\* an alert.  The rule the event came from is not touched.
HandleDelete(transactionId) ==
  /\ transactionId \in { t.id : t \in transactions }
  /\ saves < MaxSaves
  /\ saves' = saves + 1
  /\ \E ok \in Outcomes :
       /\ Fault(ok)
       /\ transactions' =
            IF ok THEN { t \in transactions : t.id # transactionId } ELSE transactions
       /\ hist' = Record([NoOp EXCEPT !.op = "deleteEvent", !.ok = ok, !.error = ~ok,
                                      !.before = { t \in transactions :
                                                    t.id = transactionId }])
  /\ UNCHANGED <<recurring_transactions, nextId, rec, sub, swp, checks, gen, del, budgetVars>>

-----------------------------------------------------------------------------
(* toggleActive *)

\* The pause / resume button: update({ is_active: !currentStatus }), currentStatus
\* being the status the list shows.  Only the template is written.
ToggleActive(id, currentStatus) ==
  /\ id \in TemplateIds
  /\ saves < MaxSaves
  /\ saves' = saves + 1
  /\ \E ok \in Outcomes :
       /\ Fault(ok)
       /\ recurring_transactions' =
            IF ok
            THEN { IF t.id = id THEN [t EXCEPT !.is_active = ~currentStatus] ELSE t :
                   t \in recurring_transactions }
            ELSE recurring_transactions
       /\ hist' = Record([NoOp EXCEPT !.op = IF currentStatus THEN "pause" ELSE "resume",
                                      !.rule = id, !.ok = ok, !.before = transactions])
  /\ UNCHANGED <<transactions, nextId, rec, sub, swp, checks, gen, del, budgetVars>>

-----------------------------------------------------------------------------
(* monthly_starting_budgets and loadStartingBudget *)

BudgetMonths == 3   \* the months a component can show: the current one and the next
MaxEdits == 2       \* edits of a month's starting budget in one behaviour
MaxLoads == 2       \* month changes (each starts a load) in one behaviour

Components == {"dashboard", "calendar"}
Months == { MonthStartAt(Today, k) : k \in 0..(BudgetMonths - 1) }
EditValues == {0, 50}
ProfileValues == {500}

subMonths(n, k) == addMonths(n, 0 - k)
endOfMonth(n) == MakeDate(YearOf(n), MonthOf(n) + 1, 0)

NoValue == 0 - 1000000   \* no row, no value
NoLoad ==
  [op |-> "none", component |-> "", month |-> NoDate, before |-> {}, edited |-> FALSE,
   profile |-> 0, stored |-> NoValue, returned |-> NoValue]
IdleLdr ==
  [pc |-> "idle", month |-> startOfMonth(Today), startingBudget |-> 0,
   before |-> {}, edited |-> FALSE, profile |-> 0, prevStartingBudget |-> 0,
   endingBalance |-> 0]

\* No loop is being run.
IdleLp ==
  [loop |-> "none", pc |-> "done", template |-> NoTemplate, monthStart |-> 0,
   maxDate |-> 0, existingDates |-> {}, currentDate |-> 0, iterations |-> 0]

\* useState: no rules, startingBudget 0, no transactions, loading, 6 months.  `zone` is
\* the client's zone (see Zones).
IdleCfp ==
  [pc |-> "idle", zone |-> 0, recurringTransactions |-> {}, startingBudget |-> 0,
   allTransactions |-> {}, loading |-> TRUE, monthsToProject |-> 6, loads |-> 0,
   projections |-> <<>>]

IdleLedger ==
  /\ lp = IdleLp
  /\ cfp = IdleCfp
  /\ monthly_starting_budgets = {}
  /\ profiles = [starting_budget |-> 0]
  /\ ldr = [c \in Components |-> IdleLdr]
  /\ led = [edits |-> {}, loads |-> 0, last |-> NoLoad]

\* .eq("month", monthKey).single(): the row of a month, if there is one.
SnapshotRows(rows, month) == { r \in rows : r.month = month }
Snapshot(rows, month) ==
  IF SnapshotRows(rows, month) = {} THEN NoValue
  ELSE (CHOOSE r \in SnapshotRows(rows, month) : TRUE).starting_budget

\* upsert(..., { onConflict: "user_id,month" }): the month's row is replaced.
ReplaceSnapshot(rows, row) == { r \in rows : r.month # row.month } \cup {row}

\* An upsert that merges on the month: what onConflict "user_id,month" would do.
MergesOnMonth(rows, row) == { r \in rows : r.month # row.month } \cup {row}

\* An insert into a table without UNIQUE(user_id, month).
InsertsAnyway(rows, row) == rows \cup {row}

\* upsert({...}) with no onConflict: the conflict target is the primary key, the row
\* comes with a new id, and UNIQUE(user_id, month) rejects it when the month has a
\* row (the error is not looked at).
InsertSnapshot(rows, row) ==
  IF SnapshotRows(rows, row.month) = {} THEN rows \cup {row} ELSE rows

\* reduce((sum, t) => sum + parseFloat(t.amount.toString()), 0)
RECURSIVE SumAmounts(_)
SumAmounts(rows) ==
  IF rows = {} THEN 0
  ELSE LET t == CHOOSE u \in rows : TRUE IN t.amount + SumAmounts(rows \ {t})

\* .gte("date", previousMonthStart).lte("date", previousMonthEnd)
TransactionsIn(monthStart, monthEnd) ==
  { t \in transactions : monthStart <= t.date /\ t.date <= monthEnd }

\* useEffect on calendarMonth / currentMonth: the component shows a month (the page is
\* opened, or the month is changed) and starts loadStartingBudget for it.
MonthChange(c, month) ==
  /\ ldr[c].pc = "idle"
  /\ led.loads < MaxLoads
  /\ ldr' = [ldr EXCEPT ![c].pc = "read", ![c].month = month,
                        ![c].before = monthly_starting_budgets,
                        ![c].edited = \E e \in led.edits : e.month = month,
                        ![c].profile = profiles.starting_budget]
  /\ led' = [led EXCEPT !.loads = led.loads + 1]
  /\ UNCHANGED <<storeVars, gen, del, cfp, lp, monthly_starting_budgets, profiles>>

\* A load that takes every month to have no row.
NeverFound(starting_budget) == FALSE

\* monthlyBudget?.starting_budget !== undefined: the select has returned a row.
Found(starting_budget) == starting_budget # NoValue

\* "Try to load starting budget for this month": with a row the value is shown;
\* with none the previous month is read next.
LoadStartingBudget(c) ==
  /\ ldr[c].pc = "read"
  /\ LET starting_budget == Snapshot(monthly_starting_budgets, ldr[c].month) IN
     IF Found(starting_budget)
     THEN /\ ldr' = [ldr EXCEPT ![c].pc = "idle", ![c].startingBudget = starting_budget]
          /\ led' = [led EXCEPT !.last =
                       [op |-> "load", component |-> c, month |-> ldr[c].month,
                        before |-> ldr[c].before, edited |-> ldr[c].edited,
                        profile |-> ldr[c].profile,
                        stored |-> starting_budget, returned |-> starting_budget]]
     ELSE /\ ldr' = [ldr EXCEPT ![c].pc = "previous"]
          /\ led' = led
  /\ UNCHANGED <<storeVars, gen, del, cfp, lp, monthly_starting_budgets, profiles>>

\* "Get previous month's starting budget": prevMonthlyBudget?.starting_budget ? ... : 0.
LoadPrevious(c) ==
  /\ ldr[c].pc = "previous"
  /\ LET previousMonthKey == startOfMonth(subMonths(ldr[c].month, 1))
         starting_budget == Snapshot(monthly_starting_budgets, previousMonthKey)
     IN  ldr' = [ldr EXCEPT ![c].pc = "transactions",
                            ![c].prevStartingBudget =
                               IF starting_budget # NoValue /\ starting_budget # 0
                               THEN starting_budget ELSE 0]
  /\ UNCHANGED <<storeVars, gen, del, cfp, lp, monthly_starting_budgets, profiles, led>>

\* "Calculate previous month's transactions", "Calculate ending balance (carryover)",
\* "Set as starting budget for current month".
LoadPrevTransactions(c) ==
  /\ ldr[c].pc = "transactions"
  /\ LET previousMonth == subMonths(ldr[c].month, 1)
         prevTransactions == TransactionsIn(startOfMonth(previousMonth),
                                            endOfMonth(previousMonth))
         prevIncome == SumAmounts({ t \in prevTransactions : t.type = "income" })
         prevExpenses == SumAmounts({ t \in prevTransactions : t.type = "expense" })
         endingBalance == ldr[c].prevStartingBudget + prevIncome - prevExpenses
     IN  ldr' = [ldr EXCEPT ![c].pc = "upsert", ![c].endingBalance = endingBalance,
                            ![c].startingBudget = endingBalance]
  /\ UNCHANGED <<storeVars, gen, del, cfp, lp, monthly_starting_budgets, profiles, led>>

\* "Save to database".
LoadUpsert(c) ==
  /\ ldr[c].pc = "upsert"
  /\ monthly_starting_budgets' =
       InsertSnapshot(monthly_starting_budgets,
                      [month |-> ldr[c].month, starting_budget |-> ldr[c].endingBalance])
  /\ ldr' = [ldr EXCEPT ![c].pc = "idle"]
  /\ led' = [led EXCEPT !.last =
               [op |-> "load", component |-> c, month |-> ldr[c].month,
                before |-> ldr[c].before, edited |-> ldr[c].edited,
                profile |-> ldr[c].profile,
                stored |-> NoValue, returned |-> ldr[c].endingBalance]]
  /\ UNCHANGED <<storeVars, gen, del, cfp, lp, profiles>>

\* The starting budget input of a component, onChange and onBlur: the value typed is
\* written to the month's row, then loadStartingBudget runs again (the dashboard's
\* "startingBudgetUpdated" makes the calendar load too: a MonthChange of the calendar
\* to the month it shows).
SaveStartingBudget(c, value) ==
  /\ ldr[c].pc = "idle"
  /\ Cardinality(led.edits) < MaxEdits
  /\ LET row == [month |-> ldr[c].month, starting_budget |-> value] IN
       /\ monthly_starting_budgets' = ReplaceSnapshot(monthly_starting_budgets, row)
       /\ led' = [led EXCEPT !.edits = ReplaceSnapshot(led.edits, row)]
  /\ ldr' = [ldr EXCEPT ![c].pc = "read", ![c].startingBudget = value,
                        ![c].before = monthly_starting_budgets',
                        ![c].edited = TRUE, ![c].profile = profiles.starting_budget]
  /\ UNCHANGED <<storeVars, gen, del, cfp, lp, profiles>>

\* The planner's starting budget input, onBlur: update({ starting_budget }) of the
\* profile (saveBudget writes the same input's value again).
SaveProfileStartingBudget(value) ==
  /\ profiles.starting_budget # value
  /\ profiles' = [profiles EXCEPT !.starting_budget = value]
  /\ UNCHANGED <<storeVars, gen, del, cfp, lp, monthly_starting_budgets, ldr, led>>

-----------------------------------------------------------------------------
(* CashflowPrediction: loadData and projections *)

MaxPredictLoads == 2   \* runs of loadData in one behaviour

\* <option value={3}>, {6}, {12}
MonthOptions == {3, 6, 12}

\* An interval of months without its last month.
MonthsBefore(start, end) ==
  [i \in 1..((YearOf(end) - YearOf(start)) * 12 + MonthOf(end) - MonthOf(start)) |->
     MonthStartAt(start, i - 1)]

\* date-fns eachMonthOfInterval({ start, end }): the first day of every month from
\* start's month to end's month, both included.
eachMonthOfInterval(start, end) ==
  [i \in 1..((YearOf(end) - YearOf(start)) * 12 + MonthOf(end) - MonthOf(start) + 1) |->
     MonthStartAt(start, i - 1)]

\* "Group transactions by month": format(startOfMonth(new Date(transaction.date))).
\* new Date reads the string as UTC midnight, startOfMonth and format are local.
monthTransactions(s, monthKey) ==
  { t \in s.allTransactions : startOfMonth(LocalDay(s.zone, t.date)) = monthKey }

\* forEach over recurringTransactions: the sum of getMonthlyAmount of a kind's rules.
RECURSIVE SumMonthlyAmounts(_, _, _)
SumMonthlyAmounts(rows, monthStart, monthEnd) ==
  IF rows = {} THEN 0
  ELSE LET t == CHOOSE u \in rows : TRUE
       IN  getMonthlyAmount(t, monthStart, monthEnd)
             + SumMonthlyAmounts(rows \ {t}, monthStart, monthEnd)

\* monthlyIncome and monthlyExpenses of a month: from the month's transactions when
\* there are any, from the rules when there are none; what is not income is expense.
monthlyIncome(s, monthStart) ==
  IF monthTransactions(s, monthStart) # {}
  THEN SumAmounts({ t \in monthTransactions(s, monthStart) : t.type = "income" })
  ELSE SumMonthlyAmounts({ t \in s.recurringTransactions : t.type = "income" },
                         monthStart, endOfMonth(monthStart))

monthlyExpenses(s, monthStart) ==
  IF monthTransactions(s, monthStart) # {}
  THEN SumAmounts({ t \in monthTransactions(s, monthStart) : t.type # "income" })
  ELSE SumMonthlyAmounts({ t \in s.recurringTransactions : t.type # "income" },
                         monthStart, endOfMonth(monthStart))

\* An ending balance that forgets the starting balance.
NetOnly(monthStartingBalance, net) == net

\* monthEndingBalance = monthStartingBalance + net
monthEndingBalance(monthStartingBalance, net) == monthStartingBalance + net

\* months.forEach: one MonthlyProjection per month, runningBalance carried from each
\* month to the next.
RECURSIVE ProjectMonths(_, _, _, _, _)
ProjectMonths(s, months, index, runningBalance, monthlyData) ==
  IF index > Len(months) THEN monthlyData
  ELSE LET monthStartingBalance == runningBalance
           income == monthlyIncome(s, months[index])
           expenses == monthlyExpenses(s, months[index])
           net == income - expenses
           ending == monthEndingBalance(monthStartingBalance, net)
       IN  ProjectMonths(s, months, index + 1, ending,
                         Append(monthlyData,
                                [monthKey |-> months[index],
                                 startingBalance |-> monthStartingBalance,
                                 income |-> income, expenses |-> expenses, net |-> net,
                                 endingBalance |-> ending]))

\* The useMemo: nothing while loading, then the months from the current one to
\* monthsToProject months later.
projections(s) ==
  IF s.loading THEN <<>>
  ELSE LET startMonth == startOfMonth(Today)
           endMonth == addMonths(startMonth, s.monthsToProject)
       IN  ProjectMonths(s, eachMonthOfInterval(startMonth, endMonth), 1,
                         s.startingBudget, <<>>)

\* A render after a change of state: the memo is computed again.
Render(s) == [s EXCEPT !.projections = projections(s)]

\* useEffect on mount, "budgetUpdated", "recurringTransactionDeleted": loadData starts.
PredictLoadData ==
  /\ cfp.pc = "idle"
  /\ cfp.loads < MaxPredictLoads
  /\ cfp' = [cfp EXCEPT !.pc = "recurring", !.loads = cfp.loads + 1]
  /\ UNCHANGED <<storeVars, gen, del, lp, monthly_starting_budgets, profiles, ldr, led>>

\* The select's onChange: setMonthsToProject, and the effect that depends on it starts
\* loadData.
SetMonthsToProject(value) ==
  /\ cfp.pc = "idle"
  /\ cfp.loads < MaxPredictLoads
  /\ value # cfp.monthsToProject
  /\ cfp' = Render([cfp EXCEPT !.pc = "recurring", !.loads = cfp.loads + 1,
                               !.monthsToProject = value])
  /\ UNCHANGED <<storeVars, gen, del, lp, monthly_starting_budgets, profiles, ldr, led>>

\* "Load recurring transactions": the active templates.
PredictLoadRecurring ==
  /\ cfp.pc = "recurring"
  /\ cfp' = Render([cfp EXCEPT !.pc = "budget",
                               !.recurringTransactions =
                                  ActiveTemplates(recurring_transactions)])
  /\ UNCHANGED <<storeVars, gen, del, lp, monthly_starting_budgets, profiles, ldr, led>>

\* "Load current month's starting budget": with a row, setStartingBudget; with none
\* the state keeps the value it has.
PredictLoadBudget ==
  /\ cfp.pc = "budget"
  /\ LET starting_budget == Snapshot(monthly_starting_budgets, startOfMonth(Today)) IN
       cfp' = Render([cfp EXCEPT !.pc = "transactions",
                                 !.startingBudget =
                                    IF Found(starting_budget) THEN starting_budget
                                    ELSE cfp.startingBudget])
  /\ UNCHANGED <<storeVars, gen, del, lp, monthly_starting_budgets, profiles, ldr, led>>

\* "Load actual transactions for all months in projection range", setLoading(false).
PredictLoadTransactions ==
  /\ cfp.pc = "transactions"
  /\ LET projectionStart == startOfMonth(Today)
         projectionEnd == addMonths(projectionStart, cfp.monthsToProject)
         projectionEndDate == endOfMonth(projectionEnd)
     IN  cfp' = Render([cfp EXCEPT !.pc = "idle", !.loading = FALSE,
                                   !.allTransactions =
                                      TransactionsIn(projectionStart, projectionEndDate)])
  /\ UNCHANGED <<storeVars, gen, del, lp, monthly_starting_budgets, profiles, ldr, led>>

-----------------------------------------------------------------------------
(* The generators' loops, one iteration at a time *)

\* A loop is entered, on any rule the store can hold and any of the windows: the
\* reconcile's and the form's window ends, and for the projection a month up to a
\* year after the rule's start.
LoopStart ==
  /\ lp.loop = "none"
  /\ \E loop \in {"missing", "recurring", "count"}, frequency \in Frequencies,
        start_date \in {MakeDate(2024, 1, 31), MakeDate(2024, 2, 29)},
        end_date \in {NoDate, MakeDate(2024, 3, 30)},
        maxDate \in {Today + SubmitAhead, Today + ReconcileAhead, MakeDate(2028, 3, 31)},
        monthStart \in {MakeDate(2024, 1, 1), MakeDate(2024, 3, 1), MakeDate(2025, 2, 1)},
        existing \in BOOLEAN :
       /\ loop = "count" => (~existing /\ maxDate = Today + SubmitAhead)
       /\ loop # "count" => monthStart = MakeDate(2024, 1, 1)
       /\ loop = "recurring" => ~existing
       /\ lp' = [loop |-> loop, pc |-> "start",
                 template |-> [NoTemplate EXCEPT !.id = 1, !.amount = 1200,
                                                 !.frequency = frequency,
                                                 !.start_date = start_date,
                                                 !.end_date = end_date,
                                                 !.next_occurrence =
                                                    IF existing THEN start_date + 7
                                                    ELSE start_date,
                                                 !.is_active = TRUE],
                 monthStart |-> monthStart, maxDate |-> maxDate,
                 existingDates |-> IF existing THEN {start_date + 7} ELSE {},
                 currentDate |-> 0, iterations |-> 0]
  /\ UNCHANGED <<storeVars, gen, del, cfp, monthly_starting_budgets, profiles, ldr, led>>

\* One pass through the loop that lp.loop names: the loop's test, its body, its break.
\* "start" is the code before the loop.  The loop of generateMissingRecurring-
\* Transactions counts every pass; the loop of generateRecurringTransactions counts
\* the dates it pushes and leaves by a break otherwise; the two loops of
\* getMonthlyAmount (skip ahead, then count) have no counter and end when the date
\* has passed the month.
LoopStep ==
  /\ lp.pc # "done"
  /\ LET template == lp.template
         endDate == template.end_date
         next == NextDate(template.frequency, lp.currentDate)
         step == CounterStep(template.frequency, lp.currentDate)
         monthEnd == endOfMonth(lp.monthStart)
     IN
     lp' =
       CASE lp.loop = "missing" /\ lp.pc = "start" ->
              [lp EXCEPT !.pc = "run",
                         !.currentDate = IF template.next_occurrence > template.start_date
                                         THEN template.next_occurrence
                                         ELSE template.start_date]
         [] lp.loop = "missing" /\ lp.pc = "run" ->
              IF lp.iterations < maxIterations /\ lp.currentDate <= lp.maxDate
              THEN IF /\ lp.currentDate \notin lp.existingDates
                      /\ endDate # NoDate /\ lp.currentDate > endDate
                   THEN [lp EXCEPT !.pc = "done"]
                   ELSE [lp EXCEPT !.currentDate = next, !.iterations = lp.iterations + 1]
              ELSE [lp EXCEPT !.pc = "done"]
         [] lp.loop = "recurring" /\ lp.pc = "start" ->
              [lp EXCEPT !.pc = "run", !.currentDate = template.start_date]
         [] lp.loop = "recurring" /\ lp.pc = "run" ->
              IF lp.iterations < maxIterationsSubmit
              THEN IF (endDate # NoDate /\ next > endDate) \/ next > lp.maxDate
                   THEN [lp EXCEPT !.pc = "done", !.currentDate = next]
                   ELSE [lp EXCEPT !.currentDate = next, !.iterations = lp.iterations + 1]
              ELSE [lp EXCEPT !.pc = "done"]
         [] lp.loop = "count" /\ lp.pc = "start" ->
              IF template.start_date > monthEnd
                 \/ (endDate # NoDate /\ endDate < lp.monthStart)
              THEN [lp EXCEPT !.pc = "done"]
              ELSE [lp EXCEPT !.pc = "skip", !.currentDate = template.start_date]
         [] lp.loop = "count" /\ lp.pc = "skip" ->
              IF lp.currentDate < lp.monthStart
              THEN IF template.frequency = "daily"
                   THEN [lp EXCEPT !.pc = "run", !.currentDate = lp.monthStart]
                   ELSE [lp EXCEPT !.currentDate = step]
              ELSE [lp EXCEPT !.pc = "run"]
         [] lp.loop = "count" /\ lp.pc = "run" ->
              IF lp.currentDate <= monthEnd
              THEN [lp EXCEPT !.currentDate = step,
                              !.pc = IF step > monthEnd THEN "done" ELSE "run",
                              !.iterations =
                                 IF /\ lp.monthStart <= lp.currentDate
                                    /\ (endDate = NoDate \/ lp.currentDate <= endDate)
                                 THEN lp.iterations + 1 ELSE lp.iterations]
              ELSE [lp EXCEPT !.pc = "done"]
  /\ UNCHANGED <<storeVars, gen, del, cfp, monthly_starting_budgets, profiles, ldr, led>>

-----------------------------------------------------------------------------
(* Specifications *)

Init ==
  /\ recurring_transactions = {}
  /\ transactions = {}
  /\ nextId = 1
  /\ rec = [s \in Sessions |-> IdleRec]
  /\ sub = IdleSub
  /\ swp = [s \in Sessions |-> IdleSwp]
  /\ hist = IdleHist
  /\ faults = 0
  /\ checks = 0
  /\ saves = 0
  /\ del = IdleDel
  /\ IdleLedger
  /\ gen = IdleGen

Submit(maxRules) ==
  \/ \E formData \in Forms : HandleSubmit(formData, maxRules)
  \/ SubmitInitial
  \/ SubmitGenerate
  \/ SubmitGenInsert
  \/ SubmitGenUpdate

Reconcile(s) ==
  \/ CheckAndGenerate(s)
  \/ ReadExisting(s)
  \/ DuplicateCheck(s)
  \/ InsertMissing(s)
  \/ UpdateCursor(s)

\* Every client runs its calls concurrently: each await is a point of interleaving.
Next ==
  \/ Submit(MaxRulesConcurrent)
  \/ \E s \in Sessions : Reconcile(s)

Spec == Init /\ [][Next]_vars

\* The generators alone.
InitGen ==
  /\ recurring_transactions = {}
  /\ transactions = {}
  /\ nextId = 1
  /\ rec = [s \in Sessions |-> IdleRec]
  /\ sub = IdleSub
  /\ swp = [s \in Sessions |-> IdleSwp]
  /\ hist = IdleHist
  /\ faults = 0
  /\ checks = 0
  /\ saves = 0
  /\ del = IdleDel
  /\ IdleLedger
  /\ GenInit

NextGen ==
  \/ GenMaterialize
  \/ GenCount

SpecGen == InitGen /\ [][NextGen]_vars

\* One client, one call at a time: a call starts only when no other is in flight.
Quiet ==
  /\ sub.pc = "idle"
  /\ del.pc = "idle"
  /\ \A s \in Sessions : swp[s].pc = "idle" /\ rec[s].pc = "idle"

InitSeq ==
  /\ recurring_transactions = {}
  /\ transactions = {}
  /\ nextId = 1
  /\ rec = [s \in Sessions |-> IdleRec]
  /\ sub = IdleSub
  /\ swp = [s \in Sessions |-> IdleSwp]
  /\ hist = [IdleHist EXCEPT !.on = TRUE]
  /\ faults = 0
  /\ checks = 0
  /\ saves = 0
  /\ del = IdleDel
  /\ IdleLedger
  /\ gen = IdleGen

NextSeq ==
  \/ Quiet /\ \E formData \in Forms : HandleSubmit(formData, MaxRules)
  \/ SubmitInitial
  \/ SubmitGenerate
  \/ SubmitGenInsert
  \/ SubmitGenUpdate
  \/ Quiet /\ CheckAndGenerate(1)
  \/ ReadExisting(1)
  \/ DuplicateCheck(1)
  \/ InsertMissing(1)
  \/ UpdateCursor(1)
  \/ Quiet /\ \E item \in BudgetItems : SaveBudget(item)
  \/ Quiet /\ \E id \in TemplateIds : DeleteRecurring(id)
  \/ DeleteTemplate
  \/ Quiet /\ \E id \in TemplateIds, currentStatus \in BOOLEAN :
                ToggleActive(id, currentStatus)

SpecSeq == InitSeq /\ [][NextSeq]_vars

\* handleSubmit on its own, with whatever the form's inputs let through: the amount
\* input is a number with no minimum, the end date is any date or none, and the
\* frequency is whatever the request carries.
AnyForms ==
  { f \in [type : FormTypes, category : FormCategories, amount : {0 - 5, 0, 1200},
           date : {Today}, isRecurring : BOOLEAN,
           frequency : {"weekly", "monthly", "quarterly"},
           endDate : {NoDate, Today - 14, Today + 7}] :
      ~f.isRecurring => (f.amount = 1200 /\ f.frequency = "monthly" /\ f.endDate = NoDate) }

NextForm ==
  \/ Quiet /\ \E formData \in AnyForms : HandleSubmit(formData, MaxRules)
  \/ SubmitInitial
  \/ SubmitGenerate
  \/ SubmitGenInsert
  \/ SubmitGenUpdate

SpecForm == InitSeq /\ [][NextForm]_vars

\* One rule, its reconciles, and the user deleting events, one call at a time.
NextDelete ==
  \/ Quiet /\ \E formData \in Forms : HandleSubmit(formData, MaxRulesConcurrent)
  \/ SubmitInitial
  \/ SubmitGenerate
  \/ SubmitGenInsert
  \/ SubmitGenUpdate
  \/ Quiet /\ CheckAndGenerate(1)
  \/ ReadExisting(1)
  \/ DuplicateCheck(1)
  \/ InsertMissing(1)
  \/ UpdateCursor(1)
  \/ Quiet /\ \E transactionId \in 1..MaxRows : HandleDelete(transactionId)

SpecDelete == InitSeq /\ [][NextDelete]_vars

\* The sweep alone, on a store that holds any rows: rows entered by hand, and rows of
\* one weekly template, each fingerprint any number of times.
SweepTemplate ==
  [id |-> 1, type |-> "expense", category |-> "Mortgage & rent", amount |-> 1200,
   description |-> "", frequency |-> "weekly", start_date |-> Today,
   end_date |-> NoDate, next_occurrence |-> Today + 7, is_active |-> TRUE]

SweepRows ==
  { r \in [type : {"expense"}, category : {"Mortgage & rent"}, amount : {1200, 50},
           description : {""}, date : {Today, Today + 7},
           recurring_template_id : {0, 1}] :
      r.recurring_template_id = 1 => r.amount = SweepTemplate.amount }

WithId(r, id) ==
  [id |-> id, type |-> r.type, category |-> r.category, amount |-> r.amount,
   description |-> r.description, date |-> r.date,
   recurring_template_id |-> r.recurring_template_id]

InitSweep ==
  /\ recurring_transactions = {SweepTemplate}
  /\ \E n \in 0..MaxSweepRows :
       /\ nextId = n + 2
       /\ \E f \in [1..n -> SweepRows] :
            transactions = { WithId(f[i], i + 1) : i \in 1..n }
  /\ rec = [s \in Sessions |-> IdleRec]
  /\ sub = IdleSub
  /\ swp = [s \in Sessions |-> IdleSwp]
  /\ hist = [IdleHist EXCEPT !.on = TRUE]
  /\ faults = 0
  /\ checks = 0
  /\ saves = 0
  /\ del = IdleDel
  /\ IdleLedger
  /\ gen = IdleGen

NextSweep ==
  \/ SweepRead(1)
  \/ SweepDelete(1)

SpecSweep == InitSweep /\ [][NextSweep]_vars

\* Two clients of one owner run the sweep on the same store, each await a point of
\* interleaving.
NextSweeps ==
  \/ \E s \in Sessions : SweepRead(s)
  \/ \E s \in Sessions : SweepDelete(s)

SpecSweeps == InitSweep /\ [][NextSweeps]_vars

\* A rule, reconciles of two clients interleaved at every await, and a sweep that
\* starts once they have all finished; no other call moves while the sweep runs.
NextRace ==
  \/ swp[1].pc = "idle" /\ Submit(MaxRulesConcurrent)
  \/ swp[1].pc = "idle" /\ \E s \in Sessions : Reconcile(s)
  \/ Quiet /\ SweepRead(1)
  \/ SweepDelete(1)

SpecRace == InitSeq /\ [][NextRace]_vars

\* The budget planner and the dashboard of one owner: saveBudget at any moment of a
\* reconcile in flight (session 1), and the reconcile the dashboard starts on
\* "budgetUpdated" once an item has been edited (session 2).
NextEdit ==
  \/ \E item \in BudgetItems : SaveBudget(item)
  \/ Reconcile(1)
  \/ hist.edit.op = "edit" /\ Reconcile(2)

SpecEdit == InitSeq /\ [][NextEdit]_vars

\* A rule made through the form, its reconcile, and the delete button pressed at any
\* moment of it; every event of this store is materialized from a rule.
NextUndo ==
  \/ Quiet /\ \E formData \in Forms :
                formData.isRecurring /\ HandleSubmit(formData, MaxRulesConcurrent)
  \/ SubmitInitial
  \/ SubmitGenerate
  \/ SubmitGenInsert
  \/ SubmitGenUpdate
  \/ Reconcile(1)
  \/ sub.pc = "idle" /\ \E id \in TemplateIds : DeleteRecurring(id)
  \/ DeleteTemplate

SpecUndo == Init /\ [][NextUndo]_vars

\* The starting balances alone: the events are there (entered by hand, in the first
\* two months), both components load and the user edits, interleaved at every await.
LedgerRows ==
  { [id |-> 1, type |-> "income", category |-> "Income", amount |-> 500,
     description |-> "", date |-> MakeDate(2024, 1, 10), recurring_template_id |-> 0],
    [id |-> 2, type |-> "expense", category |-> "Mortgage & rent", amount |-> 300,
     description |-> "", date |-> MakeDate(2024, 1, 20), recurring_template_id |-> 0],
    [id |-> 3, type |-> "expense", category |-> "Mortgage & rent", amount |-> 1200,
     description |-> "", date |-> MakeDate(2024, 2, 5), recurring_template_id |-> 0] }

InitBudget ==
  /\ recurring_transactions = {}
  /\ transactions \in { {}, { t \in LedgerRows : t.id = 1 }, LedgerRows }
  /\ nextId = 4
  /\ rec = [s \in Sessions |-> IdleRec]
  /\ sub = IdleSub
  /\ swp = [s \in Sessions |-> IdleSwp]
  /\ hist = IdleHist
  /\ faults = 0
  /\ checks = 0
  /\ saves = 0
  /\ del = IdleDel
  /\ gen = IdleGen
  /\ monthly_starting_budgets = {}
  /\ profiles = [starting_budget |-> 0]
  /\ ldr = [c \in Components |-> IdleLdr]
  /\ led = [edits |-> {}, loads |-> 0, last |-> NoLoad]
  /\ cfp = IdleCfp
  /\ lp = IdleLp

NextBudget ==
  \/ \E c \in Components, month \in Months : MonthChange(c, month)
  \/ \E c \in Components : LoadStartingBudget(c)
  \/ \E c \in Components : LoadPrevious(c)
  \/ \E c \in Components : LoadPrevTransactions(c)
  \/ \E c \in Components : LoadUpsert(c)
  \/ \E c \in Components, value \in EditValues : SaveStartingBudget(c, value)
  \/ \E value \in ProfileValues : SaveProfileStartingBudget(value)

SpecBudget == InitBudget /\ [][NextBudget]_vars

\* The dashboard's effect: checkAndGenerateRecurringTransactions and loadStartingBudget
\* are started side by side and interleave at every await.  The rules come from the
\* budget planner, saved before the first load starts; reconciles are started until a
\* load has completed.
NextCarry ==
  \/ /\ led.last.op = "none" /\ ldr["dashboard"].pc = "idle" /\ Quiet
     /\ \E item \in BudgetItems : SaveBudget(item)
  \/ led.last.op = "none" /\ CheckAndGenerate(1)
  \/ ReadExisting(1)
  \/ DuplicateCheck(1)
  \/ InsertMissing(1)
  \/ UpdateCursor(1)
  \/ \E month \in Months : MonthChange("dashboard", month)
  \/ LoadStartingBudget("dashboard")
  \/ LoadPrevious("dashboard")
  \/ LoadPrevTransactions("dashboard")
  \/ LoadUpsert("dashboard")

SpecCarry == InitBudget /\ [][NextCarry]_vars

\* The projection on a store that does not change: up to three rules (one of them
\* paused), events in the previous month, in the current month and on the first day
\* and in the middle of later months, and a current month with or without a row.
PredictRules ==
  { [id |-> 1, type |-> "income", category |-> "Income", amount |-> 1000,
     description |-> "", frequency |-> "monthly", start_date |-> MakeDate(2023, 12, 15),
     end_date |-> NoDate, next_occurrence |-> MakeDate(2023, 12, 15), is_active |-> TRUE],
    [id |-> 2, type |-> "expense", category |-> "Groceries", amount |-> 50,
     description |-> "", frequency |-> "weekly", start_date |-> MakeDate(2024, 1, 3),
     end_date |-> MakeDate(2024, 5, 31), next_occurrence |-> MakeDate(2024, 1, 3),
     is_active |-> TRUE],
    [id |-> 3, type |-> "expense", category |-> "Mortgage & rent", amount |-> 700,
     description |-> "", frequency |-> "monthly", start_date |-> MakeDate(2024, 1, 1),
     end_date |-> NoDate, next_occurrence |-> MakeDate(2024, 1, 1), is_active |-> FALSE] }

PredictRows ==
  { [id |-> 4, type |-> "income", category |-> "Income", amount |-> 400,
     description |-> "", date |-> MakeDate(2023, 12, 20), recurring_template_id |-> 0],
    [id |-> 5, type |-> "income", category |-> "Income", amount |-> 500,
     description |-> "", date |-> MakeDate(2024, 1, 10), recurring_template_id |-> 0],
    [id |-> 6, type |-> "expense", category |-> "Mortgage & rent", amount |-> 1200,
     description |-> "", date |-> MakeDate(2024, 2, 1), recurring_template_id |-> 0],
    [id |-> 7, type |-> "expense", category |-> "Groceries", amount |-> 300,
     description |-> "", date |-> MakeDate(2024, 9, 20), recurring_template_id |-> 0] }

InitPredict ==
  /\ recurring_transactions \in SUBSET PredictRules
  /\ transactions \in { { t \in PredictRows : t.id \in ids } :
                          ids \in { {}, {4}, {5, 7}, {6}, {4, 5, 6, 7} } }
  /\ nextId = 8
  /\ rec = [s \in Sessions |-> IdleRec]
  /\ sub = IdleSub
  /\ swp = [s \in Sessions |-> IdleSwp]
  /\ hist = IdleHist
  /\ faults = 0
  /\ checks = 0
  /\ saves = 0
  /\ del = IdleDel
  /\ gen = IdleGen
  /\ monthly_starting_budgets \in
       { {}, {[month |-> startOfMonth(Today), starting_budget |-> 250]} }
  /\ profiles = [starting_budget |-> 0]
  /\ ldr = [c \in Components |-> IdleLdr]
  /\ led = [edits |-> {}, loads |-> 0, last |-> NoLoad]
  /\ \E zone \in Zones : cfp = [IdleCfp EXCEPT !.zone = zone]
  /\ lp = IdleLp

NextPredict ==
  \/ PredictLoadData
  \/ \E value \in MonthOptions : SetMonthsToProject(value)
  \/ PredictLoadRecurring
  \/ PredictLoadBudget
  \/ PredictLoadTransactions

SpecPredict == InitPredict /\ [][NextPredict]_vars

\* The loops on their own: nothing in the store, no loop run yet.
InitLoop ==
  /\ recurring_transactions = {}
  /\ transactions = {}
  /\ nextId = 1
  /\ rec = [s \in Sessions |-> IdleRec]
  /\ sub = IdleSub
  /\ swp = [s \in Sessions |-> IdleSwp]
  /\ hist = IdleHist
  /\ faults = 0
  /\ checks = 0
  /\ saves = 0
  /\ del = IdleDel
  /\ gen = IdleGen
  /\ IdleLedger

NextLoop == LoopStart \/ LoopStep

\* The loop runs in one task of a single thread: nothing else is scheduled until it
\* has ended, so a pass that can be made is made.
SpecLoop == InitLoop /\ [][NextLoop]_vars /\ WF_vars(LoopStep)

-----------------------------------------------------------------------------
(* Properties *)

\* The occurrence dates of a rule up to a date, as the materializer's switch steps
\* through them from start_date.
RECURSIVE OccurrencesFrom(_, _, _)
OccurrencesFrom(rule, currentDate, to) ==
  IF currentDate > to \/ (rule.end_date # NoDate /\ currentDate > rule.end_date)
  THEN {}
  ELSE {currentDate} \cup OccurrencesFrom(rule, NextDate(rule.frequency, currentDate), to)

Occurrences(rule, to) == OccurrencesFrom(rule, rule.start_date, to)

\* The events that carry a rule's category, amount and type on a date.
EventsOn(rule, date) ==
  { t \in transactions : /\ t.category = rule.category /\ t.amount = rule.amount
                         /\ t.type = rule.type /\ t.date = date }

\* C1: whatever the interleaving of concurrent reconciles and of handleSubmit /
\* generateRecurringTransactions, the store never holds two materialized events of
\* the same rule on the same date.
C1_AtMostOnePerRuleDate ==
  \A t, u \in transactions :
    ( /\ t.recurring_template_id # 0
      /\ t.recurring_template_id = u.recurring_template_id
      /\ t.date = u.date ) => t.id = u.id

\* C2: a reconcile of a rule that runs right after a successful reconcile of the same
\* rule, nothing in between and no store call having failed, creates no event (and
\* deletes none: reconcile has no delete), also when the first run stopped at its
\* iteration limit.
C2_SecondRunCreatesNothing ==
  ( /\ faults = 0
    /\ hist.prev.op = "reconcile" /\ hist.prev.ok
    /\ hist.last.op = "reconcile" /\ hist.last.rule = hist.prev.rule )
  => hist.last.created = 0

\* C3: two rules with the same category, amount and type, both created through
\* handleSubmit and both reconciled, one call at a time and no store call failing:
\* on every date both rules produce and both cursors have passed, exactly one event
\* exists.
C3_OneEventPerSharedDate ==
  \A r1, r2 \in recurring_transactions :
    ( /\ Quiet /\ faults = 0 /\ saves = 0
      /\ r1.id # r2.id
      /\ r1.category = r2.category /\ r1.amount = r2.amount /\ r1.type = r2.type
      /\ {r1.id, r2.id} \subseteq hist.reconciled )
    => \A date \in Occurrences(r1, r1.next_occurrence) \cap
                   Occurrences(r2, r2.next_occurrence) :
         Cardinality(EventsOn(r1, date)) = 1

SeenFromOthers(r) ==
  LET dates == r.transactionsToCreate IN
  { t \in r.seen :
      /\ t.recurring_template_id # r.template.id
      /\ t.category = r.template.category
      /\ t.amount = r.template.amount
      /\ t.type = r.template.type
      /\ t.date \in Occurrences(r.template, dates[Len(dates)])
      /\ \A u \in r.seen : u.recurring_template_id = r.template.id => u.date # t.date }

C5_OnePerFingerprint ==
  (hist.last.op = "sweep" /\ hist.last.ok) =>
    \A k \in { Key(t) : t \in hist.last.before } :
      Cardinality({ t \in transactions : Key(t) = k }) = 1

\* C5 at work: a sweep has deleted the duplicates of a store that held a fingerprint
\* three times and another fingerprint once.
C5_Witness ==
  /\ hist.last.op = "sweep" /\ hist.last.ok
  /\ Cardinality(hist.last.deleted) = 2
  /\ Cardinality({ Key(t) : t \in hist.last.before }) = 2
  /\ Cardinality(hist.last.before) = 4

\* C6: of every fingerprint group the sweep keeps the earliest-created event, whatever
\* the order in which the store returned the events of one date.
C6_KeepsEarliestCreated ==
  swp[1].pc = "delete" =>
    \A g \in Groups(swp[1].before) :
      \A t \in g :
        t.id \notin swp[1].duplicateIds => \A u \in g : t.id <= u.id

\* C7: a sweep that runs right after a completed sweep finds nothing to delete and
\* deletes nothing.
C7_SecondSweepDeletesNothing ==
  /\ (hist.last.op = "sweep" /\ hist.last.ok) => swp[1].pc # "delete"
  /\ (hist.prev.op = "sweep" /\ hist.prev.ok /\ hist.last.op = "sweep")
       => hist.last.deleted = {}

\* C7 at work: a sweep deleted duplicates, and the sweep after it has completed.
C7_Witness ==
  /\ hist.prev.op = "sweep" /\ hist.prev.ok /\ hist.prev.deleted # {}
  /\ hist.last.op = "sweep" /\ hist.last.ok
  /\ hist.last.before # hist.prev.before

\* C8: no step of any operation lowers a rule's next_occurrence.
C8_CursorNeverDecreases ==
  [][ \A t \in recurring_transactions :
        \A u \in recurring_transactions' :
          t.id = u.id => u.next_occurrence >= t.next_occurrence ]_vars

\* C9: with store calls failing, and no budget edit having removed events, the cursor
\* never stands beyond an occurrence that has no event: between calls every
\* occurrence of a rule before its next_occurrence is in the store, so the next
\* reconcile, which walks on from next_occurrence, leaves no gap.
C9_NoGap ==
  (Quiet /\ saves = 0) =>
    \A r \in recurring_transactions :
      \A date \in Occurrences(r, r.next_occurrence - 1) : EventsOn(r, date) # {}

\* C9 at work: a reconcile's insert failed, and the reconcile after it created the
\* events and moved the cursor.
C9_Witness ==
  /\ Quiet /\ saves = 0
  /\ hist.prev.op = "reconcile" /\ ~ hist.prev.ok
  /\ hist.last.op = "reconcile" /\ hist.last.ok /\ hist.last.created > 0
  /\ hist.last.rule = hist.prev.rule
  /\ \E r \in recurring_transactions :
       r.id = hist.last.rule /\ r.next_occurrence > r.start_date

\* C10: the k-th occurrence of a monthly rule is the anchor's day-of-month in the
\* k-th following month, clamped to that month's last day (the clamp taken from the
\* anchor each time), in the materializer's dates and in the dates the projection
\* counts month by month.
C10_MonthlyFromAnchor ==
  ( /\ gen.phase = "counted" /\ gen.zone = 0 /\ gen.is_active
    /\ gen.frequency = "monthly" /\ gen.end_date = NoDate
    /\ gen.to = MakeDate(2024, 5, 1) )
  => \A k \in 1..GenMonths :
       addMonths(gen.start_date, k - 1) <= gen.to =>
         /\ Len(gen.dates) >= k
         /\ gen.dates[k] = addMonths(gen.start_date, k - 1)
         /\ gen.counted[k] = {addMonths(gen.start_date, k - 1)}

\* C11: a yearly rule anchored on Feb 29 falls on Feb 28 in every non-leap year and
\* on Feb 29 again in the next leap year, in the materializer's dates and in the dates
\* the projection counts year by year.
C11_YearlyFeb29 ==
  ( /\ gen.phase = "counted" /\ gen.zone = 0 /\ gen.is_active
    /\ gen.frequency = "yearly" /\ gen.end_date = NoDate
    /\ gen.start_date = MakeDate(2024, 2, 29)
    /\ gen.to = MakeDate(2028, 3, 31) )
  => /\ Len(gen.dates) >= 2
     /\ gen.dates[2] = MakeDate(2025, 2, 28)
     /\ \A k \in 1..GenYears :
          gen.countedYears[k] =
            { IF IsLeap(2023 + k) THEN MakeDate(2023 + k, 2, 29)
              ELSE MakeDate(2023 + k, 2, 28) }

\* The interval of a day-counted frequency.
IntervalDays(frequency) ==
  CASE frequency = "daily"     -> 1
    [] frequency = "weekly"    -> 7
    [] frequency = "fortnight" -> 14

\* C12: every date materialized for a weekly or fortnightly rule (a daily rule's
\* interval divides every distance) lies a whole number of intervals after the rule's
\* anchor, in the reconcile's dates and in generateRecurringTransactions' dates.
C12_PhaseFromAnchor ==
  ( /\ gen.phase = "materialized"
    /\ gen.frequency \in {"weekly", "fortnight"} )
  => /\ \A i \in 1..Len(gen.dates) :
          (gen.dates[i] - gen.start_date) % IntervalDays(gen.frequency) = 0
     /\ \A i \in 1..Len(gen.submitted) :
          (gen.submitted[i] - gen.start_date) % IntervalDays(gen.frequency) = 0

\* C13: the dates of one generation run are strictly ascending and each lies between
\* the anchor and the earlier of the window's end and the rule's end date, the end
\* date included.
C13_AscendingWithinWindow ==
  gen.phase = "materialized" =>
    \A dates \in {gen.dates, gen.submitted} :
      /\ \A i \in 1..Len(dates) :
           /\ gen.start_date <= dates[i]
           /\ dates[i] <= gen.to
           /\ gen.end_date # NoDate => dates[i] <= gen.end_date
      /\ \A i \in 1..(Len(dates) - 1) : dates[i] < dates[i + 1]

\* C14: generation yields no occurrence when the rule's anchor date is after the end of
\* the window, when the rule is inactive, or when the rule's end date is before the
\* start of the window: the reconcile creates no date (its window starts at the rule's
\* cursor, here the anchor), and the projection counts none in a month [monthStart,
\* monthEnd].
C14_EmptyOutsideWindow ==
  gen.phase = "counted" =>
    /\ ( \/ gen.start_date > gen.to
         \/ ~gen.is_active
         \/ (gen.end_date # NoDate /\ gen.end_date < gen.start_date) )
       => gen.dates = <<>>
    /\ ( \/ gen.start_date > MonthEndAt(gen.to, 0)
         \/ ~gen.is_active
         \/ (gen.end_date # NoDate /\ gen.end_date < MonthStartAt(gen.to, 0)) )
       => gen.countedAt = {}
    /\ \A k \in 1..GenMonths :
         ( \/ ~gen.is_active
           \/ ( /\ gen.end_date # NoDate
                /\ gen.end_date < MonthStartAt(gen.start_date, k - 1) ) )
         => gen.counted[k] = {}

\* The three cases have happened: an active rule anchored after the window's end, an
\* inactive rule inside its window, and an active rule ended before the window starts.
C14_WitnessAnchorAfter ==
  /\ gen.phase = "counted" /\ gen.is_active /\ gen.end_date = NoDate
  /\ gen.start_date > MonthEndAt(gen.to, 0)
  /\ gen.dates = <<>> /\ gen.countedAt = {}
  /\ gen.counted[1] # {}

C16_DeleteCascades ==
  (hist.last.op \in {"delete", "remove"} /\ hist.last.ok)
    => \A t \in hist.last.before : \A u \in transactions : u.id # t.id

\* C17: pausing a rule deletes and changes none of the events, and a reconcile that
\* starts while the rule is paused creates no event for it: with calls run one at a
\* time, the store after a pause holds the events it held before, and a reconcile
\* that has created events of a rule ran on a rule that is active.
C17_PauseStopsGeneration ==
  /\ (hist.last.op = "pause" /\ Quiet) => transactions = hist.last.before
  /\ \A s \in Sessions :
       rec[s].pc # "idle" =>
         \A r \in recurring_transactions :
           r.id = rec[s].template.id => r.is_active
  /\ (hist.last.op = "reconcile" /\ hist.last.created > 0) =>
       \A r \in recurring_transactions : r.id = hist.last.rule => r.is_active

\* A rule with events has been paused, and a reconcile has run after the pause and
\* completed on the other rule: the paused rule's events are those it had.
C17_Witness ==
  /\ hist.prev.op = "pause" /\ hist.prev.ok
  /\ hist.last.op = "reconcile" /\ hist.last.ok /\ hist.last.rule # hist.prev.rule
  /\ Quiet
  /\ \E r \in recurring_transactions :
       /\ r.id = hist.prev.rule /\ ~r.is_active
       /\ r.next_occurrence < Today + ReconcileAhead
       /\ { t \in transactions : t.recurring_template_id = r.id } # {}
       /\ { t \in transactions : t.recurring_template_id = r.id } =
            { t \in hist.prev.before : t.recurring_template_id = r.id }

NetOf(monthStart) ==
  SumAmounts({ t \in TransactionsIn(monthStart, endOfMonth(monthStart)) :
               t.type = "income" })
  - SumAmounts({ t \in TransactionsIn(monthStart, endOfMonth(monthStart)) :
                 t.type = "expense" })

\* The starting balance of a month resolved through the earlier months: the month's
\* row if it has one, else the previous month's balance plus that month's net; before
\* the first month of the owner's data it is 0.
RECURSIVE CarriedBalance(_, _)
CarriedBalance(rows, month) ==
  IF Snapshot(rows, month) # NoValue THEN Snapshot(rows, month)
  ELSE IF month < startOfMonth(Today) THEN 0
  ELSE CarriedBalance(rows, startOfMonth(subMonths(month, 1)))
       + NetOf(startOfMonth(subMonths(month, 1)))

\* C19: a load of a month that has no row shows the previous month's starting balance,
\* resolved through every earlier month without a row, plus the previous month's
\* income minus expenses, and stores it as the month's row.
C19_CarryoverThroughGaps ==
  ( /\ led.last.op = "load" /\ led.last.stored = NoValue
    /\ led.edits = {} /\ profiles.starting_budget = 0 /\ led.last.profile = 0
    /\ \A c \in Components : ldr[c].pc = "idle" )
  => /\ led.last.returned = CarriedBalance(led.last.before, led.last.month)
     /\ Snapshot(monthly_starting_budgets, led.last.month) = led.last.returned

\* C20: a load of the earliest month, one with no row, no row of an earlier month and
\* no event before it, shows 0 when the profile has no starting budget and the
\* profile's starting budget (as it was when the load started) when it has one.
C20_ProfileSeedsEarliest ==
  ( /\ led.last.op = "load" /\ led.last.stored = NoValue
    /\ led.edits = {}
    /\ \A r \in led.last.before : r.month > led.last.month
    /\ \A t \in transactions : t.date >= led.last.month )
  => led.last.returned = led.last.profile

-----------------------------------------------------------------------------
(* The projection *)

\* C22: in the projection each month starts at the balance the month before it ended
\* at, and each month's ending balance is its starting balance plus its income minus
\* its expenses.
C22_BalancesChain ==
  LET p == cfp.projections IN
    /\ \A i \in 1..(Len(p) - 1) : p[i + 1].startingBalance = p[i].endingBalance
    /\ \A i \in 1..Len(p) :
         p[i].endingBalance = p[i].startingBalance + p[i].income - p[i].expenses

C22_Witness ==
  LET p == cfp.projections IN
    /\ Len(p) > 1
    /\ p[1].startingBalance # 0
    /\ p[1].income # p[1].expenses
    /\ p[2].income # p[2].expenses

\* C23: once loaded, the projection for N months has N + 1 entries, the first for the
\* current month and each next one for the calendar month after the one before.
C23_OneEntryPerMonth ==
  ~cfp.loading =>
    LET p == cfp.projections IN
      /\ Len(p) = cfp.monthsToProject + 1
      /\ p[1].monthKey = startOfMonth(Today)
      /\ \A i \in 1..(Len(p) - 1) :
           /\ p[i].monthKey < p[i + 1].monthKey
           /\ p[i + 1].monthKey = endOfMonth(p[i].monthKey) + 1

C23_Witness ==
  /\ ~cfp.loading
  /\ cfp.monthsToProject = 12
  /\ Len(cfp.projections) = 13
  /\ cfp.projections[13].monthKey = MakeDate(2025, 1, 1)

\* C24: once loadData has completed, the first projected month starts at the balance
\* the ledger gives for the current month: the row's value when the month has a row,
\* the previous month's balance plus its income minus its expenses when it has none.
C24_FirstMonthFromLedger ==
  (cfp.pc = "idle" /\ ~cfp.loading) =>
    cfp.projections[1].startingBalance =
      CarriedBalance(monthly_starting_budgets, startOfMonth(Today))

\* C30: once loadData has completed, a projected month that has events shows the sums
\* of its events of each kind, and a month that has none shows, for each kind, the sum
\* over the active rules of the amount times the number of dates counted in the month.
C30_ExactOrEstimated ==
  (cfp.pc = "idle" /\ ~cfp.loading) =>
    \A i \in 1..Len(cfp.projections) :
      LET monthStart == cfp.projections[i].monthKey
          monthEnd == endOfMonth(monthStart)
          events == TransactionsIn(monthStart, monthEnd)
          active == ActiveTemplates(recurring_transactions)
      IN  IF events # {}
          THEN /\ cfp.projections[i].income =
                    SumAmounts({ t \in events : t.type = "income" })
               /\ cfp.projections[i].expenses =
                    SumAmounts({ t \in events : t.type = "expense" })
          ELSE /\ cfp.projections[i].income =
                    SumMonthlyAmounts({ t \in active : t.type = "income" },
                                      monthStart, monthEnd)
               /\ cfp.projections[i].expenses =
                    SumMonthlyAmounts({ t \in active : t.type = "expense" },
                                      monthStart, monthEnd)

-----------------------------------------------------------------------------
(* Limits, failures and termination *)

\* C25: a reconcile that ends without an error has walked its rule to the end of the
\* window: after it the date that follows the cursor is beyond the window or beyond
\* the rule's end date.  (A run that stops at its iteration limit before that must
\* end in an error; the code has none to give, so such a run must not happen.)
C25_BoundIsFatal ==
  ( /\ Quiet /\ faults = 0 /\ saves = 0
    /\ hist.last.op = "reconcile" /\ hist.last.ok /\ hist.last.created > 0 )
  => \A r \in recurring_transactions :
       r.id = hist.last.rule =>
         \/ NextDate(r.frequency, r.next_occurrence) > Today + ReconcileAhead
         \/ /\ r.end_date # NoDate
            /\ NextDate(r.frequency, r.next_occurrence) > r.end_date

\* C26: a reconcile whose insert failed, so that the store lacks the events the run
\* was to create, has told its caller that it failed.
C26_FailurePropagated ==
  (hist.last.op = "reconcile" /\ ~hist.last.ok) => hist.last.error

\* C27: every stored rule has a positive amount, a known frequency and an end date, if
\* it has one, that is not before its start date; so does every rule the generator of
\* handleSubmit is run on.
C27_InvalidRuleRejected ==
  \A r \in recurring_transactions \cup
           (IF sub.pc \in {"genInsert", "genUpdate"} THEN {sub.template} ELSE {}) :
    /\ r.amount > 0
    /\ r.frequency \in Frequencies
    /\ r.end_date # NoDate => r.start_date <= r.end_date

\* C28: every run of a generator's loop ends: the loop of
\* generateMissingRecurringTransactions, the loop of generateRecurringTransactions and
\* the two loops of getMonthlyAmount, for every rule and every window.
C28_LoopsTerminate == (lp.pc = "start") ~> (lp.pc = "done")

\* A run that ended at its iteration limit with the window's end still ahead.
C28_Witness ==
  /\ lp.loop = "missing" /\ lp.pc = "done"
  /\ lp.iterations = maxIterations
  /\ lp.currentDate <= lp.maxDate

\* C29: after a reconcile of an active rule that ended without an error and reached
\* the end of its window, every occurrence date of the rule from its start date to the
\* window's end (or the rule's end date) has an event with the rule's kind, category
\* and amount, also the dates before the cursor.
C29_WindowCovered ==
  ( /\ Quiet /\ faults = 0
    /\ hist.last.op = "reconcile" /\ hist.last.ok )
  => \A r \in recurring_transactions :
       ( /\ r.id = hist.last.rule /\ r.is_active
         /\ NextDate(r.frequency, r.next_occurrence) > Today + ReconcileAhead )
       => \A date \in Occurrences(r, Today + ReconcileAhead) : EventsOn(r, date) # {}

-----------------------------------------------------------------------------
(* The estimate against the materialized events *)

\* C31: for every rule and every calendar month the window covers, the number of
\* occurrences getMonthlyAmount counts in the month equals the number of dates the
\* materializer, started from the anchor and stopping at the window's end (not at its
\* iteration limit), creates in that month.
C31_EstimateEqualsExact ==
  ( /\ gen.phase = "counted" /\ gen.zone = 0 /\ gen.is_active
    /\ Len(gen.dates) < maxIterations )
  => \A k \in 1..GenMonths :
       MonthEndAt(gen.start_date, k - 1) <= gen.to =>
         Cardinality(gen.counted[k]) =
           Cardinality({ i \in 1..Len(gen.dates) :
                           /\ MonthStartAt(gen.start_date, k - 1) <= gen.dates[i]
                           /\ gen.dates[i] <= MonthEndAt(gen.start_date, k - 1) })

-----------------------------------------------------------------------------
(* deleteRecurring's failures *)

\* C40: when deleteRecurring's delete of the rule's events fails, the step leaves the
\* rule and every event in the store as they were and dispatches no
\* recurringTransactionDeleted; the event is dispatched only by a step after which the
\* rule and the events deleteRecurring found are gone.
C40_FailedDeleteChangesNothing ==
  [][ (hist' # hist /\ hist'.last.op = "delete") =>
        /\ del.pc = "idle" =>
             /\ transactions' = transactions
             /\ recurring_transactions' = recurring_transactions
             /\ ~hist'.last.dispatched
        /\ hist'.last.dispatched =>
             /\ hist'.last.rule \notin { t.id : t \in recurring_transactions' }
             /\ \A t \in transactions' :
                  /\ t.recurring_template_id # hist'.last.rule
                  /\ t \notin hist'.last.before ]_vars

\* C40 at work: the delete of a rule's events has failed, and the rule and its events
\* are in the store.
C40_Witness ==
  /\ hist.last.op = "delete" /\ hist.last.error /\ ~hist.last.dispatched
  /\ hist.last.rule \in TemplateIds
  /\ hist.last.before # {}
  /\ hist.last.before \subseteq transactions

-----------------------------------------------------------------------------
(* What the sweep leaves alone *)

\* C39: a step of cleanupDuplicateTransactions removes only events whose fingerprint
\* another event of the store carries too, leaves every other event as it is, and
\* changes no rule, no starting balance and no profile.
C39_SweepDeletesOnlyDuplicates ==
  [][ /\ recurring_transactions' = recurring_transactions
      /\ monthly_starting_budgets' = monthly_starting_budgets
      /\ profiles' = profiles
      /\ transactions' \subseteq transactions
      /\ \A t \in transactions \ transactions' :
           \E u \in transactions : u.id # t.id /\ Key(u) = Key(t) ]_vars

\* C39 at work: a sweep has deleted duplicates from a store that also held an event
\* with a fingerprint of its own, and that event is still there.
C39_Witness ==
  /\ hist.last.op = "sweep" /\ hist.last.ok /\ hist.last.deleted # {}
  /\ \E t \in hist.last.before :
       /\ \A u \in hist.last.before : Key(u) = Key(t) => u.id = t.id
       /\ t \in transactions

-----------------------------------------------------------------------------
(* One starting balance per month *)

\* C37: in every reachable state monthly_starting_budgets holds at most one row per
\* month, also when the dashboard's and the calendar's loadStartingBudget have both
\* found none and both write; the write that comes second changes nothing.
C37_OneSnapshotPerMonth ==
  /\ [](\A r1, r2 \in monthly_starting_budgets : r1.month = r2.month => r1 = r2)
  /\ [][ \A c \in Components :
           ( /\ ldr[c].pc = "upsert" /\ ldr'[c].pc = "idle"
             /\ SnapshotRows(monthly_starting_budgets, ldr[c].month) # {} )
           => monthly_starting_budgets' = monthly_starting_budgets ]_vars

\* C37 at work: a load that had found no row for its month has written a value, and
\* the month's row holds the different value another load wrote before it.
C37_Witness ==
  /\ led.last.op = "load" /\ led.last.stored = NoValue
  /\ Snapshot(monthly_starting_budgets, led.last.month) # NoValue
  /\ Snapshot(monthly_starting_budgets, led.last.month) # led.last.returned
  /\ \A e \in led.edits : e.month # led.last.month

-----------------------------------------------------------------------------
(* Events inside their rule's dates *)

\* C38: every event that refers to a rule has a date on or after the rule's
\* start_date and, when the rule has an end_date, on or before it: the initial event
\* handleSubmit writes as well as the generated ones.
C38_WithinRuleDates ==
  \A t \in transactions :
    \A r \in recurring_transactions :
      t.recurring_template_id = r.id =>
        /\ r.start_date <= t.date
        /\ r.end_date # NoDate => t.date <= r.end_date

-----------------------------------------------------------------------------
(* Sweeps and reconciles that overlap *)

\* C33: when two runs of cleanupDuplicateTransactions overlap, every fingerprint a run
\* has read is still carried by at least one event after the run has completed: the
\* runs do not keep different events of a group and delete each other's.
C33_GroupSurvivesTwoSweeps ==
  hist.last.op = "sweep" =>
    \A t \in hist.last.before : \E u \in transactions : Key(u) = Key(t)

\* C32: once the concurrent reconciles and their writes have finished, a sweep whose
\* delete succeeded leaves exactly one event per fingerprint, and the reconcile that
\* runs after that sweep on a rule reconciled before it creates no event.
C32_SweepThenFixedPoint ==
  /\ []( (hist.last.op = "sweep" /\ hist.last.ok /\ Quiet) =>
          \A t, u \in transactions : Key(t) = Key(u) => t.id = u.id )
  /\ [][ ( /\ hist.last.op = "sweep" /\ hist.last.ok
           /\ hist' # hist /\ hist'.last.op = "reconcile"
           /\ hist'.last.rule \in hist.reconciled )
         => hist'.last.created = 0 ]_vars

\* C34: a rule has been edited through saveBudget, no reconcile is in flight any more
\* and two reconciles of the rule have completed since the edit (the one the edit
\* triggers among them): every event that refers to the rule carries the rule's
\* current type, category and amount and lies on a date of the rule's current
\* occurrence set, and every occurrence date up to the rule's cursor has its event.
C34_EventsFollowEditedRule ==
  ( /\ Quiet /\ hist.edit.op = "edit"
    /\ hist.last.op = "reconcile" /\ hist.last.ok /\ hist.last.rule = hist.edit.rule
    /\ hist.prev.op = "reconcile" /\ hist.prev.ok /\ hist.prev.rule = hist.edit.rule )
  => \A r \in recurring_transactions :
       r.id = hist.edit.rule =>
         /\ \A t \in transactions :
              t.recurring_template_id = r.id =>
                /\ t.type = r.type /\ t.category = r.category /\ t.amount = r.amount
                /\ t.date \in Occurrences(r, Today + ReconcileAhead)
         /\ \A d \in Occurrences(r, r.next_occurrence) :
              \E t \in transactions : t.recurring_template_id = r.id /\ t.date = d

\* C35: when deleteRecurring and the reconciles that were in flight have all finished,
\* no event materialized from a deleted rule is left: every event of the store refers
\* to a rule that exists, none refers to a rule that is gone and none has lost its
\* reference.
C35_NoEventOfDeletedRule ==
  Quiet => \A t \in transactions : t.recurring_template_id \in TemplateIds

\* C36: a load has created the row of its month while reconciles were running; once
\* no call is in flight, the value it stored is the starting balance of the month
\* before plus that month's income minus its expenses, over the events of that month
\* as they now are.
C36_SnapshotMatchesLedger ==
  ( /\ Quiet /\ ldr["dashboard"].pc = "idle"
    /\ led.last.op = "load" /\ led.last.stored = NoValue
    /\ Snapshot(monthly_starting_budgets, led.last.month) = led.last.returned )
  => LET previousMonthKey == startOfMonth(subMonths(led.last.month, 1))
         previous == Snapshot(monthly_starting_budgets, previousMonthKey)
     IN  led.last.returned =
           (IF previous = NoValue THEN 0 ELSE previous) + NetOf(previousMonthKey)

====
